---- MODULE Spec2Model ----
(***************************************************************************)
(* Model of the parallel validation pipeline (ParallelValidator,           *)
(* ValidationWorker, ParallelValidationApp) and of crash recovery          *)
(* (run_recover) of bigchaindb.                                            *)
(*                                                                         *)
(* A transaction is denoted by its name; Tx gives its decoded dict.  The  *)
(* values "None" and "False" stand for Python's None and False, so that a  *)
(* result slot always holds a string.                                      *)
(***************************************************************************)
EXTENDS Integers, Sequences, FiniteSets, TLC

\* ---------------------------------------------------------------- bounds

\* deliver_tx calls in one behaviour
MaxDeliveries == 3

\* begin_block calls in one behaviour
MaxBlocks == 2

\* blocks of the committed chain recovery starts from
MaxChain == 2

\* the greatest voting power of a validator and amount of an output
MaxPower == 2

\* outputs of an election submitted for validation
MaxOutputs == 2

\* transactions in a list whose votes are counted
MaxCounted == 2

\* messages in a worker's queue before its EXIT
MaxQueue == 3

\* crashes during or after recovery
MaxRestarts == 2

\* ------------------------------------------------------------- constants

NumberOfWorkers == 2

CodeTypeOk == 0

RESET == [kind |-> "reset", index |-> 0, transaction |-> "None"]

EXIT == [kind |-> "exit", index |-> 0, transaction |-> "None"]

Workers == 0 .. (NumberOfWorkers - 1)

\* ---------------------------------------------------------- transactions

\* The elements of a sequence.
Range(s) == {s[i] : i \in 1 .. Len(s)}

\* The transactions the BFT engine may deliver.  An id is a hexadecimal
\* string, written as the sequence of its digits' values.  asset is <<>>
\* for an asset without an 'id' key (CREATE) and <<id>> otherwise.
\* wellformed stands for the checks that depend on the transaction alone
\* (schema, id hash, fulfillments, amount conservation).
\* asset_dict tells whether the value under 'asset' is a dict: in nul it
\* is null.
Tx ==
    [ c1  |-> [id |-> <<6>>, operation |-> "CREATE", asset |-> <<>>,
               inputs |-> {}, outputs |-> 1, wellformed |-> TRUE,
               asset_dict |-> TRUE],
      t1  |-> [id |-> <<12>>, operation |-> "TRANSFER", asset |-> << <<6>> >>,
               inputs |-> {[txid |-> <<6>>, output |-> 0]}, outputs |-> 1,
               wellformed |-> TRUE,
               asset_dict |-> TRUE],
      ds  |-> [id |-> <<1, 2>>, operation |-> "TRANSFER", asset |-> << <<6>> >>,
               inputs |-> {[txid |-> <<6>>, output |-> 0]}, outputs |-> 1,
               wellformed |-> TRUE,
               asset_dict |-> TRUE],
      t2  |-> [id |-> <<7>>, operation |-> "TRANSFER", asset |-> << <<6>> >>,
               inputs |-> {[txid |-> <<6>>, output |-> 0]}, outputs |-> 1,
               wellformed |-> TRUE,
               asset_dict |-> TRUE],
      bad |-> [id |-> <<2>>, operation |-> "TRANSFER", asset |-> << <<6>> >>,
               inputs |-> {[txid |-> <<6>>, output |-> 0]}, outputs |-> 1,
               wellformed |-> FALSE,
               asset_dict |-> TRUE],
      r0  |-> [id |-> <<0>>, operation |-> "CREATE", asset |-> <<>>,
               inputs |-> {}, outputs |-> 1, wellformed |-> TRUE,
               asset_dict |-> TRUE],
      r1  |-> [id |-> <<1>>, operation |-> "CREATE", asset |-> <<>>,
               inputs |-> {}, outputs |-> 1, wellformed |-> TRUE,
               asset_dict |-> TRUE],
      r2  |-> [id |-> <<2>>, operation |-> "CREATE", asset |-> <<>>,
               inputs |-> {}, outputs |-> 1, wellformed |-> TRUE,
               asset_dict |-> TRUE],
      r3  |-> [id |-> <<3>>, operation |-> "CREATE", asset |-> <<>>,
               inputs |-> {}, outputs |-> 1, wellformed |-> TRUE,
               asset_dict |-> TRUE],
      nul |-> [id |-> <<4>>, operation |-> "CREATE", asset |-> <<>>,
               inputs |-> {}, outputs |-> 1, wellformed |-> FALSE,
               asset_dict |-> FALSE] ]

\* The transactions of the routing test, with the ids 0, 1, 2 and 3, in the
\* order the test submits them in every round.
RoutedTransactions == <<"r0", "r1", "r2", "r3">>

TxNames == DOMAIN Tx \ (Range(RoutedTransactions) \cup {"nul"})

Ids == {Tx[t].id : t \in DOMAIN Tx}

\* Python truthiness of a result slot.
Truthy(x) == x \notin {"None", "False"}

\* int(s, 16)
RECURSIVE Int16(_)
Int16(s) ==
    IF s = <<>> THEN 0
    ELSE Int16(SubSeq(s, 1, Len(s) - 1)) * 16 + s[Len(s)]

\* ------------------------------------------------------------------ state

VARIABLES
    \* storage backend
    transactions,            \* stored transactions (names)
    blocks,                  \* stored blocks [height, transactions]
    pre_commit,              \* <<>> or <<[height, transactions]>>
    validators,              \* validator-set snapshots
    \* ParallelValidator
    transaction_index,
    routing_queues,
    results_queue,
    result_buffer,
    remaining,               \* iterations left in result()'s loop
    \* ValidationWorker
    validated_transactions,
    running,                 \* whether worker w is still in run()'s loop
    \* ParallelValidationApp
    pc,
    height,
    block_txn_ids,
    block_transactions,
    response,
    \* recovery
    storage0,                \* the storage run_recover started from
    \* one call of a function of the election subsystem
    call,                    \* its arguments
    returned,                \* what it returned or raised
    shown,                   \* <<>> or the last status query and its answer
    \* history
    begun,                   \* begin_block calls so far
    deliveries,              \* deliver_tx calls so far
    submitted,               \* messages validate() has put this round
    arrived,                 \* indexes in the order result() got them
    outcome,                 \* what the worker answered for each of them
    last_round,              \* submitted and outcome of the round just ended
    worker_log,              \* per worker: what it validated since its RESET
    prev_log,                \* per worker: worker_log at its last RESET
    stop_called

storage == <<transactions, blocks, pre_commit, validators>>

validator == <<transaction_index, routing_queues, results_queue, result_buffer,
               remaining>>

worker_state == <<validated_transactions, running>>

app == <<pc, height, block_txn_ids, block_transactions, response>>

history == <<begun, deliveries, submitted, arrived, outcome, last_round,
             worker_log, prev_log, stop_called>>

pure == <<call, returned, shown>>

vars == <<storage, validator, worker_state, app, storage0, pure, history>>

\* ------------------------------------------------------- storage backend

\* query.get_transaction: the stored transactions with this id
get_transaction(id) == {t \in transactions : Tx[t].id = id}

\* query.get_latest_block: <<>> when no block is stored
get_latest_block ==
    IF blocks = {} THEN <<>>
    ELSE <<CHOOSE b \in blocks : \A c \in blocks : c.height <= b.height>>

\* query.get_pre_commit_state: <<>> when the collection is empty
get_pre_commit_state == pre_commit

\* query.delete_transactions: the transactions left in storage
delete_transactions(ids) ==
    {t \in transactions :
        (IF t \in DOMAIN Tx THEN Tx[t].id ELSE t) \notin Range(ids)}

\* The height of the latest committed block, 0 before the first.
LatestHeight ==
    IF get_latest_block = <<>> THEN 0 ELSE get_latest_block[1].height

\* -------------------------------------------- single-transaction validation

\* BigchainDB.is_valid_transaction(tx, current_transactions): the
\* transaction when it is valid against committed storage and the
\* transactions already accepted in this block, "False" otherwise.
is_valid_transaction(t, current_transactions) ==
    LET context == Range(current_transactions)
        known == transactions \cup context
        duplicate ==
            \/ get_transaction(Tx[t].id) # {}
            \/ \E c \in context : Tx[c].id = Tx[t].id
        inputs_exist ==
            \A i \in Tx[t].inputs :
                \E p \in known : Tx[p].id = i.txid /\ i.output < Tx[p].outputs
        spent ==
            \E i \in Tx[t].inputs : \E p \in known : i \in Tx[p].inputs
    IN  IF Tx[t].wellformed /\ ~duplicate /\ inputs_exist /\ ~spent
        THEN t
        ELSE "False"

\* ------------------------------------------------------- ValidationWorker

EmptyContext == [a \in Ids |-> <<>>]

\* reset that keeps the context
resetKeeps(context) == context

\* ValidationWorker.reset
reset(context) == EmptyContext

\* asset_id that is the transaction's own id for every operation
asset_id_own(t) == Tx[t].id

\* The key of the worker's context a transaction is validated against.
asset_id(t) == IF Tx[t].asset # <<>> THEN Tx[t].asset[1] ELSE Tx[t].id

\* The worker's context after validate() returned `transaction` for t.
Remember(context, t, transaction) ==
    IF Truthy(transaction)
    THEN [context EXCEPT ![asset_id(t)] = Append(@, transaction)]
    ELSE context

\* dict_transaction['asset']['id'] raises KeyError, which validate()
\* catches, when the dict under 'asset' has no 'id', and TypeError, which
\* nothing catches, when the value under 'asset' is not a dict.
asset_id_raises(t) == ~Tx[t].asset_dict

\* ValidationWorker.validate: the result and the new context, or the
\* exception that leaves it
WorkerValidate(context, t) ==
    LET transaction == is_valid_transaction(t, context[asset_id(t)])
    IN  [result |-> transaction, context |-> Remember(context, t, transaction),
         raised |-> asset_id_raises(t)]

\* run on workers that share one context
run_shared(w) ==
    /\ running[w]
    /\ routing_queues[w] # <<>>
    /\ LET message == Head(routing_queues[w])
           v == WorkerValidate(validated_transactions[w], message.transaction)
           answered == message.kind = "tx" /\ ~v.raised
       IN  /\ routing_queues' = [routing_queues EXCEPT ![w] = Tail(@)]
           /\ validated_transactions' =
                  [j \in Workers |->
                      IF message = RESET
                      THEN reset(validated_transactions[w])
                      ELSE IF answered THEN v.context
                      ELSE validated_transactions[w]]
           /\ running' = [running EXCEPT ![w] =
                             message.kind = "reset" \/ answered]
           /\ results_queue' =
                  IF answered
                  THEN Append(results_queue,
                              [index |-> message.index, transaction |-> v.result])
                  ELSE results_queue
           /\ worker_log' =
                  [worker_log EXCEPT ![w] =
                      IF message = RESET THEN <<>>
                      ELSE IF answered
                      THEN Append(@, [index |-> message.index,
                                      transaction |-> message.transaction,
                                      result |-> v.result])
                      ELSE @]
           /\ prev_log' =
                  [prev_log EXCEPT ![w] =
                      IF message = RESET THEN worker_log[w] ELSE @]
           /\ outcome' =
                  IF answered
                  THEN [outcome EXCEPT ![message.index + 1] = v.result]
                  ELSE outcome
    /\ UNCHANGED <<storage, transaction_index, result_buffer, remaining, app,
                   storage0, pure, begun, deliveries, submitted, arrived,
                   last_round, stop_called>>

\* One iteration of ValidationWorker.run on worker w.  An exception that
\* leaves validate() leaves run() too: the worker ends without a result.
run(w) ==
    /\ running[w]
    /\ routing_queues[w] # <<>>
    /\ LET message == Head(routing_queues[w])
           v == WorkerValidate(validated_transactions[w], message.transaction)
           answered == message.kind = "tx" /\ ~v.raised
       IN  /\ routing_queues' = [routing_queues EXCEPT ![w] = Tail(@)]
           /\ validated_transactions' =
                  [validated_transactions EXCEPT ![w] =
                      IF message = RESET THEN reset(@)
                      ELSE IF answered THEN v.context
                      ELSE @]
           /\ running' = [running EXCEPT ![w] =
                             message.kind = "reset" \/ answered]
           /\ results_queue' =
                  IF answered
                  THEN Append(results_queue,
                              [index |-> message.index, transaction |-> v.result])
                  ELSE results_queue
           /\ worker_log' =
                  [worker_log EXCEPT ![w] =
                      IF message = RESET THEN <<>>
                      ELSE IF answered
                      THEN Append(@, [index |-> message.index,
                                      transaction |-> message.transaction,
                                      result |-> v.result])
                      ELSE @]
           /\ prev_log' =
                  [prev_log EXCEPT ![w] =
                      IF message = RESET THEN worker_log[w] ELSE @]
           /\ outcome' =
                  IF answered
                  THEN [outcome EXCEPT ![message.index + 1] = v.result]
                  ELSE outcome
    /\ UNCHANGED <<storage, transaction_index, result_buffer, remaining, app,
                   storage0, pure, begun, deliveries, submitted, arrived,
                   last_round, stop_called>>

\* ------------------------------------------------------ ParallelValidator

\* worker_index that routes every transaction to the first worker
worker_index_first(t) == 0

\* worker_index that splits the ids in a lower and an upper half
worker_index_halves(t) == (Int16(Tx[t].id) \div 2) % NumberOfWorkers

\* The worker a transaction is routed to.
worker_index(t) == Int16(Tx[t].id) % NumberOfWorkers

\* Message with the index left at 0
MessageUntagged(t) == [kind |-> "tx", index |-> 0, transaction |-> t]

\* The pair validate() puts: the submission index and the transaction
Message(t) ==
    [kind |-> "tx", index |-> transaction_index, transaction |-> t]

\* ParallelValidator.validate: the routing queues after the put
Routed(t) ==
    [routing_queues EXCEPT ![worker_index(t)] = Append(@, Message(t))]

\* [None] * n
NewBuffer(n) == [k \in 1 .. n |-> "None"]

\* Store that fills the first free slot, whatever the index
StoreInArrivalOrder(buffer, index, transaction) ==
    LET free == {k \in DOMAIN buffer : buffer[k] = "None"}
    IN  IF free = {} THEN buffer
        ELSE [buffer EXCEPT ![CHOOSE k \in free : \A j \in free : k <= j] =
                 transaction]

\* result_buffer[index] = transaction
Store(buffer, index, transaction) ==
    [buffer EXCEPT ![index + 1] = transaction]

\* The put of a sentinel on every routing queue.
Broadcast(queues, sentinel) == [w \in Workers |-> Append(queues[w], sentinel)]

\* ParallelValidator.stop
stop ==
    /\ ~stop_called
    /\ pc # "harvest"
    /\ routing_queues' = Broadcast(routing_queues, EXIT)
    /\ stop_called' = TRUE
    /\ UNCHANGED <<storage, transaction_index, results_queue, result_buffer,
                   remaining, worker_state, app, storage0, pure, begun,
                   deliveries, submitted, arrived, outcome, last_round,
                   worker_log, prev_log>>

\* -------------------------------------------------- ParallelValidationApp

\* Accepted with the latest slot first
AcceptedNewestFirst(result) ==
    LET kept == SelectSeq(result, Truthy)
    IN  [k \in 1 .. Len(kept) |-> kept[Len(kept) + 1 - k]]

\* The truthy slots of a result vector, in order.
Accepted(result) == SelectSeq(result, Truthy)

\* The ids of a sequence of transactions.
IdsOf(txns) == [k \in 1 .. Len(txns) |-> Tx[txns[k]].id]

\* App.begin_block: a new block at the height after the latest committed one
begin_block ==
    /\ pc \in {"idle", "ended", "failed", "started"}
    /\ begun < MaxBlocks
    /\ begun' = begun + 1
    /\ pc' = "open"
    /\ height' = LatestHeight + 1
    /\ block_txn_ids' = <<>>
    /\ block_transactions' = <<>>
    /\ response' = [hook |-> "begin_block", code |-> CodeTypeOk]
    /\ UNCHANGED <<storage, validator, worker_state, storage0, pure, deliveries,
                   submitted, arrived, outcome, last_round, worker_log,
                   prev_log, stop_called>>

\* ParallelValidationApp.deliver_tx
deliver_tx(t) ==
    /\ pc = "open"
    /\ deliveries < MaxDeliveries
    /\ routing_queues' = Routed(t)
    /\ transaction_index' = transaction_index + 1
    /\ response' = [hook |-> "deliver_tx", code |-> CodeTypeOk]
    /\ deliveries' = deliveries + 1
    /\ submitted' = Append(submitted, Message(t))
    /\ outcome' = Append(outcome, "None")
    /\ UNCHANGED <<storage, results_queue, result_buffer, remaining,
                   worker_state, pc, height, block_txn_ids,
                   block_transactions, storage0, pure, begun, arrived,
                   last_round, worker_log, prev_log, stop_called>>

\* ParallelValidationApp.deliver_tx of the next transaction of the routing
\* test: each round submits the four of them in their order
deliver_routed ==
    /\ pc = "open"
    /\ transaction_index < Len(RoutedTransactions)
    /\ LET t == RoutedTransactions[transaction_index + 1]
       IN  /\ routing_queues' = Routed(t)
           /\ submitted' = Append(submitted, Message(t))
    /\ transaction_index' = transaction_index + 1
    /\ response' = [hook |-> "deliver_tx", code |-> CodeTypeOk]
    /\ deliveries' = deliveries + 1
    /\ outcome' = Append(outcome, "None")
    /\ UNCHANGED <<storage, results_queue, result_buffer, remaining,
                   worker_state, pc, height, block_txn_ids,
                   block_transactions, storage0, pure, begun, arrived,
                   last_round, worker_log, prev_log, stop_called>>

\* Return that writes the pre-commit state for the height after the
\* block's
ReturnAhead(result) ==
    /\ result_buffer' = result
    /\ transaction_index' = 0
    /\ routing_queues' = Broadcast(routing_queues, RESET)
    /\ block_txn_ids' = block_txn_ids \o IdsOf(Accepted(result))
    /\ block_transactions' = block_transactions \o Accepted(result)
    /\ pre_commit' =
           <<[height |-> height + 1, transactions |-> block_txn_ids']>>
    /\ pc' = "ended"
    /\ response' = [hook |-> "end_block", code |-> CodeTypeOk]
    /\ last_round' = [submitted |-> submitted, outcome |-> outcome]
    /\ submitted' = <<>>
    /\ outcome' = <<>>

\* The rest of result() once its loop is over, and the rest of end_block
\* once result() has returned `result`: the accepted transactions join the
\* block and App.end_block writes the pre-commit state.
Return(result) ==
    /\ result_buffer' = result
    /\ transaction_index' = 0
    /\ routing_queues' = Broadcast(routing_queues, RESET)
    /\ block_txn_ids' = block_txn_ids \o IdsOf(Accepted(result))
    /\ block_transactions' = block_transactions \o Accepted(result)
    /\ pre_commit' = <<[height |-> height, transactions |-> block_txn_ids']>>
    /\ pc' = "ended"
    /\ response' = [hook |-> "end_block", code |-> CodeTypeOk]
    /\ last_round' = [submitted |-> submitted, outcome |-> outcome]
    /\ submitted' = <<>>
    /\ outcome' = <<>>

\* ParallelValidationApp.end_block up to result()'s first get
end_block ==
    /\ pc = "open"
    /\ IF transaction_index = 0
       THEN /\ Return(NewBuffer(0))
            /\ remaining' = 0
       ELSE /\ result_buffer' = NewBuffer(transaction_index)
            /\ remaining' = transaction_index
            /\ pc' = "harvest"
            /\ UNCHANGED <<pre_commit, transaction_index, routing_queues,
                           block_txn_ids, block_transactions, response,
                           last_round, submitted, outcome>>
    /\ arrived' = <<>>
    /\ UNCHANGED <<transactions, blocks, validators, results_queue,
                   worker_state, height, storage0, pure, begun, deliveries,
                   worker_log, prev_log, stop_called>>

\* One results_queue.get of result()'s loop that returns a pair; after the
\* last one result() and end_block run to their end.
result_get ==
    /\ pc = "harvest"
    /\ results_queue # <<>>
    /\ LET pair == Head(results_queue)
           buffer == Store(result_buffer, pair.index, pair.transaction)
       IN  /\ results_queue' = Tail(results_queue)
           /\ remaining' = remaining - 1
           /\ arrived' = Append(arrived, pair.index)
           /\ IF remaining = 1
              THEN Return(buffer)
              ELSE /\ result_buffer' = buffer
                   /\ UNCHANGED <<pre_commit, transaction_index,
                                  routing_queues, pc, block_txn_ids,
                                  block_transactions, response, last_round,
                                  submitted, outcome>>
    /\ UNCHANGED <<transactions, blocks, validators, worker_state, height,
                   storage0, pure, begun, deliveries, worker_log, prev_log,
                   stop_called>>

\* result_timeout that goes on with the results it has
result_timeout_partial ==
    /\ pc = "harvest"
    /\ results_queue = <<>>
    /\ pc' = "failed"
    /\ response' = [hook |-> "end_block", code |-> "Empty"]
    /\ block_txn_ids' = block_txn_ids \o IdsOf(Accepted(result_buffer))
    /\ block_transactions' = block_transactions \o Accepted(result_buffer)
    /\ pre_commit' = <<[height |-> height, transactions |-> block_txn_ids']>>
    /\ UNCHANGED <<transactions, blocks, validators, validator, worker_state,
                   height, storage0, pure, history>>

\* results_queue.get raises queue.Empty when the timeout elapses: result()
\* and end_block are left by the exception.
result_timeout ==
    /\ pc = "harvest"
    /\ results_queue = <<>>
    /\ pc' = "failed"
    /\ response' = [hook |-> "end_block", code |-> "Empty"]
    /\ UNCHANGED <<storage, validator, worker_state, height, block_txn_ids,
                   block_transactions, storage0, pure, history>>

\* App.commit: the block's transactions and the block are stored
commit ==
    /\ pc = "ended"
    /\ transactions' = transactions \cup Range(block_transactions)
    /\ blocks' = blocks \cup
           {[height |-> height, transactions |-> block_txn_ids]}
    /\ pc' = "idle"
    /\ response' = [hook |-> "commit", code |-> CodeTypeOk]
    /\ UNCHANGED <<pre_commit, validators, validator, worker_state, height,
                   block_txn_ids, block_transactions, storage0, pure, history>>

\* --------------------------------------------------------------- recovery

\* Recovered with the height test off by one
RecoveredTwoAhead(pre, latest_block) ==
    IF /\ pre # <<>>
       /\ latest_block # <<>>
       /\ latest_block[1].height + 1 < pre[1].height
    THEN delete_transactions(pre[1].transactions)
    ELSE transactions

\* Recovered deleting the latest block's transactions
RecoveredDeletesBlock(pre, latest_block) ==
    IF /\ pre # <<>>
       /\ latest_block # <<>>
       /\ latest_block[1].height < pre[1].height
    THEN delete_transactions(latest_block[1].transactions)
    ELSE transactions

\* Recovered with <= for <
RecoveredNotBehind(pre, latest_block) ==
    IF /\ pre # <<>>
       /\ latest_block # <<>>
       /\ latest_block[1].height <= pre[1].height
    THEN delete_transactions(pre[1].transactions)
    ELSE transactions

\* run_recover's effect on the stored transactions, given what
\* get_pre_commit_state and get_latest_block returned.
Recovered(pre, latest_block) ==
    IF /\ pre # <<>>
       /\ latest_block # <<>>
       /\ latest_block[1].height < pre[1].height
    THEN delete_transactions(pre[1].transactions)
    ELSE transactions

\* run_recover
run_recover ==
    /\ pc = "down"
    /\ transactions' = Recovered(get_pre_commit_state, get_latest_block)
    /\ pc' = "recovered"
    /\ UNCHANGED <<blocks, pre_commit, validators, validator, worker_state,
                   height, block_txn_ids, block_transactions, response,
                   storage0, pure, history>>

\* ------------------------------------------------------ election subsystem

\* A public key in one of its text encodings: `key` names the key pair and
\* `enc` the encoding, so that the same key in two encodings differs.
B64(k) == [enc |-> "base64", key |-> k]

B58(k) == [enc |-> "base58", key |-> k]

B16(k) == [enc |-> "base16", key |-> k]

\* public_key_from_ed25519_key(key_from_base64(value)): the base58 text of
\* the key a base64 text encodes
public_key_from_base64(value) == B58(value.key)

\* BigchainDB.get_validators(height): the validators of the snapshot with
\* the greatest stored height that is at most `height`; h is <<height>>,
\* or <<>> for height=None, which asks for the latest snapshot.
bigchain_get_validators(h) ==
    LET upto == {s \in validators : h = <<>> \/ s.height <= h[1]}
    IN  IF upto = {} THEN {}
        ELSE (CHOOSE s \in upto : \A r \in upto : r.height <= s.height)
                 .validators

\* ValidatorElection.get_validators: the dict public key -> voting power
get_validators(h) ==
    LET listed == bigchain_get_validators(h)
        keys == {public_key_from_base64(v.public_key.value) : v \in listed}
    IN  [k \in keys |->
            (CHOOSE v \in listed :
                 public_key_from_base64(v.public_key.value) = k).voting_power]

\* sum(d.values())
RECURSIVE SumValues(_)
SumValues(d) ==
    IF DOMAIN d = {} THEN 0
    ELSE LET k == CHOOSE x \in DOMAIN d : TRUE
         IN  d[k] + SumValues([x \in DOMAIN d \ {k} |-> d[x]])

\* The loop of is_same_topology: the dict `voters` it builds, or its early
\* return of False at the first output with more than one public key.  A
\* later output of the same key replaces the earlier one.
RECURSIVE Voters(_, _)
Voters(election_topology, voters) ==
    IF election_topology = <<>> THEN [same |-> TRUE, voters |-> voters]
    ELSE LET voter == Head(election_topology)
         IN  IF Len(voter.public_keys) > 1
             THEN [same |-> FALSE, voters |-> voters]
             ELSE Voters(Tail(election_topology),
                         (voter.public_keys[1] :> voter.amount) @@ voters)

\* The empty dict.
EmptyDict == [k \in {} |-> 0]

\* ValidatorElection.is_same_topology
is_same_topology(current_topology, election_topology) ==
    LET built == Voters(election_topology, EmptyDict)
    IN  built.same /\ current_topology = built.voters

\* invalid_power that lets a change of exactly one third through
invalid_power_above(power, current_validators) ==
    3 * power > SumValues(current_validators)

\* invalid_power that compares with two thirds
invalid_power_two_thirds(power, current_validators) ==
    3 * power >= 2 * SumValues(current_validators)

\* power >= (1/3)*sum(current_validators.values()).  The float product
\* (1/3)*T is the integer T/3 when 3 divides T and lies strictly between
\* two integers otherwise, so for integers the test is 3*power >= T.
invalid_power(power, current_validators) ==
    3 * power >= SumValues(current_validators)

\* multiple_inputs that looks at the number of inputs only
multiple_inputs_only(inputs) == Len(inputs) # 1

\* len(self.inputs) != 1 or len(self.inputs[0].owners_before) != 1
multiple_inputs(inputs) ==
    Len(inputs) # 1 \/ Len(inputs[1].owners_before) # 1

\* What a call gives back: the exception it raises or the value it returns.
Raised(exception) == [raised |-> exception, value |-> <<>>]

Returned(value) == [raised |-> "None", value |-> <<value>>]

\* Transaction.inputs_valid: whether every input is signed by its owners
inputs_valid(election) == election.signed

\* ValidatorElection.validate against the stored transactions and the
\* latest validator set: the election when it is valid, the name of the
\* exception it raises otherwise.
validate(election, stored, current_transactions) ==
    LET duplicates ==
            \E k \in 1 .. Len(current_transactions) :
                current_transactions[k].id = election.id
        current_validators == get_validators(<<>>)
    IN  IF stored \/ duplicates THEN Raised("DuplicateTransaction")
        ELSE IF ~inputs_valid(election) THEN Raised("InvalidSignature")
        ELSE IF multiple_inputs(election.inputs)
        THEN Raised("MultipleInputsError")
        ELSE IF invalid_power(election.asset.data.power, current_validators)
        THEN Raised("InvalidPowerChange")
        ELSE IF Len(election.inputs[1].owners_before) # 1
        THEN Raised("ValueError")
        ELSE IF election.inputs[1].owners_before[1]
                    \notin DOMAIN current_validators
        THEN Raised("InvalidProposer")
        ELSE IF ~is_same_topology(current_validators, election.outputs)
        THEN Raised("UnequalValidatorSet")
        ELSE Returned(election)

\* ValidatorElection.to_public_key: the base58 text of the bytes the
\* election id spells in hexadecimal
to_public_key(election_id) == B58(election_id)

\* count_votes that counts every output naming the election key
RECURSIVE count_votes_any_key(_, _)
count_votes_any_key(election_pk, txns) ==
    LET RECURSIVE counted(_)
        counted(outputs) ==
            IF outputs = <<>> THEN 0
            ELSE (IF election_pk \in Range(Head(outputs).public_keys)
                  THEN Head(outputs).amount ELSE 0) + counted(Tail(outputs))
    IN  IF txns = <<>> THEN 0
        ELSE (IF Head(txns).operation = "VALIDATOR_ELECTION_VOTE"
              THEN counted(Head(txns).outputs) ELSE 0)
             + count_votes_any_key(election_pk, Tail(txns))

\* The inner loop of count_votes over the outputs of one transaction.
RECURSIVE count_outputs(_, _)
count_outputs(election_pk, outputs) ==
    IF outputs = <<>> THEN 0
    ELSE LET output == Head(outputs)
         IN  (IF /\ Len(output.public_keys) = 1
                 /\ <<election_pk>> = output.public_keys
              THEN output.amount
              ELSE 0) + count_outputs(election_pk, Tail(outputs))

\* ValidatorElection.count_votes
RECURSIVE count_votes(_, _)
count_votes(election_pk, txns) ==
    IF txns = <<>> THEN 0
    ELSE (IF Head(txns).operation = "VALIDATOR_ELECTION_VOTE"
          THEN count_outputs(election_pk, Head(txns).outputs)
          ELSE 0) + count_votes(election_pk, Tail(txns))

\* The transactions of the election ledger, by id.  The validator set at
\* the start is {P: 3, Q: 1}.  e1 proposes to add S with power 1, e2 to
\* remove Q and e3 to add S with power 0, each with one output per
\* validator; eX gives Q a second output.  vP1, vQ1, vP2, vP3 and vQX
\* transfer the tokens of one owner to the key of the election; c is a
\* CREATE of some other asset.
ElectionOutputs ==
    <<[public_keys |-> <<B58("P")>>, amount |-> 3],
      [public_keys |-> <<B58("Q")>>, amount |-> 1]>>

Proposal(key, power) ==
    [data |-> [public_key |-> [type |-> "ed25519-base16", value |-> B16(key)],
               power |-> power, node_id |-> key]]

ElectionOf(id, proposer, outputs, asset) ==
    [id |-> id, operation |-> "VALIDATOR_ELECTION", signed |-> TRUE,
     inputs |-> <<[owners_before |-> <<B58(proposer)>>, fulfills |-> <<>>]>>,
     outputs |-> outputs, asset |-> asset]

VoteOf(id, owner, election_id, spent, amount) ==
    [id |-> id, operation |-> "VALIDATOR_ELECTION_VOTE", signed |-> TRUE,
     inputs |-> [k \in 1 .. Len(spent) |->
                    [owners_before |-> <<B58(owner)>>,
                     fulfills |-> <<[txid |-> election_id,
                                     output |-> spent[k]]>>]],
     outputs |-> <<[public_keys |-> <<to_public_key(election_id)>>,
                    amount |-> amount]>>,
     asset |-> [id |-> election_id]]

Ledger ==
    [ e1  |-> ElectionOf("e1", "P", ElectionOutputs, Proposal("S", 1)),
      e2  |-> ElectionOf("e2", "Q", ElectionOutputs, Proposal("Q", 0)),
      e3  |-> ElectionOf("e3", "P", ElectionOutputs, Proposal("S", 0)),
      eX  |-> ElectionOf("eX", "Q",
                  <<[public_keys |-> <<B58("Q")>>, amount |-> 3]>>
                      \o ElectionOutputs,
                  Proposal("S", 1)),
      vP1 |-> VoteOf("vP1", "P", "e1", <<0>>, 3),
      vQ1 |-> VoteOf("vQ1", "Q", "e1", <<1>>, 1),
      vP2 |-> VoteOf("vP2", "P", "e2", <<0>>, 3),
      vP3 |-> VoteOf("vP3", "P", "e3", <<0>>, 3),
      vQX |-> VoteOf("vQX", "Q", "eX", <<0, 2>>, 4),
      c   |-> [id |-> "c", operation |-> "CREATE", signed |-> TRUE,
               inputs |-> <<[owners_before |-> <<B58("P")>>,
                             fulfills |-> <<>>]>>,
               outputs |-> <<[public_keys |-> <<B58("P")>>, amount |-> 1]>>,
               asset |-> [data |-> "None"]] ]

LedgerIds == DOMAIN Ledger

\* A fixed listing of the ledger, to write a set of its transactions as a
\* list.
LedgerOrder ==
    <<"e1", "e2", "e3", "eX", "vP1", "vQ1", "vP2", "vP3", "vQX", "c">>

\* The transactions of a list of ids.
Loaded(ids) == [k \in 1 .. Len(ids) |-> Ledger[ids[k]]]

\* BigchainDB.get_transaction on the election ledger: <<>> when the id is
\* not in committed storage
bigchain_get_transaction(id) ==
    IF id \in transactions THEN <<Ledger[id]>> ELSE <<>>

\* query.get_asset_tokens_for_public_key: the committed transactions of the
\* asset that have an output to the public key
get_asset_tokens_for_public_key(election_id, public_key) ==
    Loaded(SelectSeq(LedgerOrder, LAMBDA t :
        /\ t \in transactions
        /\ "id" \in DOMAIN Ledger[t].asset
        /\ Ledger[t].asset.id = election_id
        /\ \E k \in 1 .. Len(Ledger[t].outputs) :
              public_key \in Range(Ledger[t].outputs[k].public_keys)))

\* ValidatorElection.get_commited_votes
get_commited_votes(election, election_pk) ==
    count_votes(election_pk,
                get_asset_tokens_for_public_key(election.id, election_pk))

\* has_concluded without the test that the committed votes are below the
\* threshold
has_concluded_again(election_id, current_votes, h) ==
    LET found == bigchain_get_transaction(election_id)
    IN  IF found = <<>> THEN <<>>
        ELSE LET election == found[1]
                 election_pk == to_public_key(election.id)
                 votes_commited == get_commited_votes(election, election_pk)
                 votes_current == count_votes(election_pk, current_votes)
                 current_validators == get_validators(<<h>>)
                 total_votes == SumValues(current_validators)
             IN  IF /\ is_same_topology(current_validators, election.outputs)
                    /\ 3 * (votes_commited + votes_current) >= 2 * total_votes
                 THEN <<election>>
                 ELSE <<>>

\* has_concluded without the test that the votes reach the threshold
has_concluded_unmet(election_id, current_votes, h) ==
    LET found == bigchain_get_transaction(election_id)
    IN  IF found = <<>> THEN <<>>
        ELSE LET election == found[1]
                 election_pk == to_public_key(election.id)
                 votes_commited == get_commited_votes(election, election_pk)
                 current_validators == get_validators(<<h>>)
                 total_votes == SumValues(current_validators)
             IN  IF /\ is_same_topology(current_validators, election.outputs)
                    /\ 3 * votes_commited < 2 * total_votes
                 THEN <<election>>
                 ELSE <<>>

\* ValidatorElection.has_concluded: <<election>> when it returns the
\* election and <<>> when it returns False.  The float product
\* (2/3)*total is the integer 2*total/3 when 3 divides total and lies
\* strictly between two integers otherwise, so for integers
\* v < (2/3)*total is 3*v < 2*total and v >= (2/3)*total is 3*v >= 2*total.
has_concluded(election_id, current_votes, h) ==
    LET found == bigchain_get_transaction(election_id)
    IN  IF found = <<>> THEN <<>>
        ELSE LET election == found[1]
                 election_pk == to_public_key(election.id)
                 votes_commited == get_commited_votes(election, election_pk)
                 votes_current == count_votes(election_pk, current_votes)
                 current_validators == get_validators(<<h>>)
                 total_votes == SumValues(current_validators)
             IN  IF /\ is_same_topology(current_validators, election.outputs)
                    /\ 3 * votes_commited < 2 * total_votes
                    /\ 3 * (votes_commited + votes_current) >= 2 * total_votes
                 THEN <<election>>
                 ELSE <<>>

\* validator_utils.new_validator_set: the validators with each update put
\* in place of the validator of the same key, or added
new_validator_set(curr_validator_set, validator_updates) ==
    LET updated ==
            {[public_key |-> [type |-> "ed25519-base64",
                              value |-> B64(u.public_key.value.key)],
              voting_power |-> u.power] : u \in Range(validator_updates)}
        keys == {v.public_key : v \in updated}
    IN  {v \in curr_validator_set : v.public_key \notin keys} \cup updated

\* encode_validator(encode_pk_to_base16(...)): the validator update in the
\* encoding of the BFT engine
encode_validator(v) ==
    [public_key |-> [type |-> "ed25519", value |-> v.public_key.value.key],
     power |-> v.power]

\* The validator set kept with the entries of no voting power
Unpruned(validator_set) == validator_set

\* [v for v in updated_validator_set if v['voting_power'] > 0]
Pruned(validator_set) == {v \in validator_set : v.voting_power > 0}

\* The height of the snapshot taken to be the block's own
effective_height_same(new_height) == new_height

\* The new validator set comes into effect from height = new_height+1
effective_height(new_height) == new_height + 1

\* What get_validator_update does when has_concluded returned `election`:
\* the snapshot it stores and the update it returns.
Conclude(election, new_height) ==
    LET validator_updates == <<election.asset.data>>
        curr_validator_set == bigchain_get_validators(<<new_height>>)
        updated_validator_set ==
            Pruned(new_validator_set(curr_validator_set, validator_updates))
    IN  [stored |-> {[height |-> effective_height(new_height),
                      validators |-> updated_validator_set,
                      election_id |-> election.id]},
         validator_updates |-> <<encode_validator(election.asset.data)>>]

\* The dict `votes` after the vote txn is appended to its election's list.
VotesWith(votes, txn) ==
    LET election_id == txn.asset.id
        election_votes ==
            IF election_id \in DOMAIN votes THEN votes[election_id] ELSE <<>>
    IN  (election_id :> Append(election_votes, txn)) @@ votes

\* The loop that goes on after a conclusion and concludes every election
\* that satisfies the rule
RECURSIVE UpdateLoopAll(_, _, _, _, _)
UpdateLoopAll(new_height, txns, k, votes, sofar) ==
    IF k > Len(txns) THEN sofar
    ELSE IF txns[k].operation # "VALIDATOR_ELECTION_VOTE"
    THEN UpdateLoopAll(new_height, txns, k + 1, votes, sofar)
    ELSE LET votes1 == VotesWith(votes, txns[k])
             election == has_concluded(txns[k].asset.id,
                                       votes1[txns[k].asset.id], new_height)
             seen == Append(sofar.evaluated, k)
         IN  UpdateLoopAll(new_height, txns, k + 1, votes1,
                 IF election = <<>>
                 THEN [sofar EXCEPT !.evaluated = seen]
                 ELSE [stored |-> sofar.stored
                           \cup Conclude(election[1], new_height).stored,
                       validator_updates |-> sofar.validator_updates
                           \o Conclude(election[1], new_height)
                                  .validator_updates,
                       evaluated |-> seen])

\* get_validator_update that does not stop at the first conclusion
get_validator_update_all(new_height, txns) ==
    UpdateLoopAll(new_height, txns, 1, EmptyDict,
                  [stored |-> {}, validator_updates |-> <<>>,
                   evaluated |-> <<>>])

\* The loop of get_validator_update from the k-th transaction on: the
\* snapshot it stores, the list it returns and the positions of the votes
\* it called has_concluded for.
RECURSIVE UpdateLoop(_, _, _, _, _)
UpdateLoop(new_height, txns, k, votes, evaluated) ==
    IF k > Len(txns)
    THEN [stored |-> {}, validator_updates |-> <<>>, evaluated |-> evaluated]
    ELSE IF txns[k].operation # "VALIDATOR_ELECTION_VOTE"
    THEN UpdateLoop(new_height, txns, k + 1, votes, evaluated)
    ELSE LET votes1 == VotesWith(votes, txns[k])
             election == has_concluded(txns[k].asset.id,
                                       votes1[txns[k].asset.id], new_height)
             seen == Append(evaluated, k)
         IN  IF election # <<>>
             THEN [stored |-> Conclude(election[1], new_height).stored,
                   validator_updates |->
                       Conclude(election[1], new_height).validator_updates,
                   evaluated |-> seen]
             ELSE UpdateLoop(new_height, txns, k + 1, votes1, seen)

\* ValidatorElection.get_validator_update
get_validator_update(new_height, txns) ==
    UpdateLoop(new_height, txns, 1, EmptyDict, <<>>)

\* BigchainDB.get_validators_by_election_id: the snapshots that carry the
\* election's id
get_validators_by_election_id(election_id) ==
    {s \in validators : s.election_id = election_id}

\* BigchainDB.get_validator_change(height=None): the latest snapshot
get_validator_change ==
    CHOOSE s \in validators : \A r \in validators : r.height <= s.height

\* BigchainDB.get_block_containing_tx: the heights of the blocks that list
\* the transaction
get_block_containing_tx(id) ==
    LET listing == {b \in blocks : id \in Range(b.transactions)}
    IN  SelectSeq([h \in 1 .. MaxBlocks + 2 |-> h],
                  LAMBDA h : \E b \in listing : b.height = h)

\* get_status with the comparison of the heights turned round
get_status_reversed(election_id) ==
    IF get_validators_by_election_id(election_id) # {} THEN "concluded"
    ELSE IF get_validator_change.height
                <= get_block_containing_tx(election_id)[1]
    THEN "inconclusive"
    ELSE "ongoing"

\* get_status that calls a change at the election's own height no change
get_status_after(election_id) ==
    IF get_validators_by_election_id(election_id) # {} THEN "concluded"
    ELSE IF get_validator_change.height
                > get_block_containing_tx(election_id)[1]
    THEN "inconclusive"
    ELSE "ongoing"

\* ValidatorElection.get_status of a committed election
get_status(election_id) ==
    LET concluded == get_validators_by_election_id(election_id)
        latest_change_height == get_validator_change.height
        election_height == get_block_containing_tx(election_id)[1]
    IN  IF concluded # {} THEN "concluded"
        ELSE IF latest_change_height >= election_height
        THEN "inconclusive"
        ELSE "ongoing"

\* ---------------------------------------------------------- specifications

GenesisValidators ==
    {[height |-> 0,
      validators |-> {[public_key |-> [type |-> "ed25519-base64",
                                       value |-> B64("P")],
                       voting_power |-> 10]},
      election_id |-> "None"]}

\* The handler, the validator and its workers after construction.
InitProcess ==
    /\ transaction_index = 0
    /\ routing_queues = [w \in Workers |-> <<>>]
    /\ results_queue = <<>>
    /\ result_buffer = <<>>
    /\ remaining = 0
    /\ validated_transactions = [w \in Workers |-> reset(EmptyContext)]
    /\ running = [w \in Workers |-> TRUE]
    /\ height = 0
    /\ block_txn_ids = <<>>
    /\ block_transactions = <<>>
    /\ response = [hook |-> "none", code |-> CodeTypeOk]
    /\ begun = 0
    /\ deliveries = 0
    /\ submitted = <<>>
    /\ arrived = <<>>
    /\ outcome = <<>>
    /\ last_round = [submitted |-> <<>>, outcome |-> <<>>]
    /\ worker_log = [w \in Workers |-> <<>>]
    /\ prev_log = [w \in Workers |-> <<>>]
    /\ stop_called = FALSE

NoCall ==
    /\ call = <<>>
    /\ returned = <<>>
    /\ shown = <<>>

Init ==
    /\ transactions = {}
    /\ blocks = {}
    /\ pre_commit = <<>>
    /\ validators = GenesisValidators
    /\ storage0 = storage
    /\ pc = "idle"
    /\ InitProcess
    /\ NoCall

Next ==
    \/ begin_block
    \/ \E t \in TxNames : deliver_tx(t)
    \/ end_block
    \/ result_get
    \/ result_timeout
    \/ commit
    \/ \E w \in Workers : run(w)
    \/ stop

Spec == Init /\ [][Next]_vars

\* A fixed listing of the transactions, to write a set of them as a list.
TxOrder == <<"c1", "t1", "ds", "t2", "bad">>

ListOf(S) == SelectSeq(TxOrder, LAMBDA t : t \in S)

\* A set of transactions a committed chain can hold: every member is well
\* formed, spends outputs of members only, and no output is spent twice.
Consistent(C) ==
    /\ \A t \in C :
          /\ Tx[t].wellformed
          /\ \A i \in Tx[t].inputs : \E p \in C : Tx[p].id = i.txid
    /\ \A t, u \in C : t # u => Tx[t].inputs \cap Tx[u].inputs = {}

\* The storage a node can be started on: a chain of H committed blocks
\* holding the transactions C, and a pre-commit state that is absent, that
\* of the latest block, or that of the next block (transactions P, of which
\* U were stored before the node went down).
InitStorage ==
    \E H \in 0 .. MaxChain, C \in SUBSET TxNames, P \in SUBSET TxNames,
       U \in SUBSET TxNames, pre \in {"none", "latest", "next"} :
        \E place \in [C -> 1 .. H] :
            LET block(h) ==
                    [height |-> h,
                     transactions |-> IdsOf(ListOf({t \in C : place[t] = h}))]
            IN  /\ Consistent(C)
                /\ \A t \in C, p \in C :
                      (\E i \in Tx[t].inputs : i.txid = Tx[p].id)
                          => place[p] <= place[t]
                /\ U \subseteq P
                /\ P \cap C = {}
                /\ \A t \in P : Tx[t].wellformed
                /\ pre # "next" => P = {}
                /\ pre = "latest" => H >= 1
                /\ transactions = C \cup U
                /\ blocks = {block(h) : h \in 1 .. H}
                /\ pre_commit =
                       IF pre = "none" THEN <<>>
                       ELSE IF pre = "latest" THEN <<block(H)>>
                       ELSE <<[height |-> H + 1,
                               transactions |-> IdsOf(ListOf(P))]>>
                /\ validators = GenesisValidators

InitRecover ==
    /\ InitStorage
    /\ storage0 = storage
    /\ pc = "down"
    /\ InitProcess
    /\ NoCall

NextRecover == run_recover

SpecRecover == InitRecover /\ [][NextRecover]_vars

\* The node goes down while run_recover is deleting: some of the
\* transactions it would delete are deleted.  `call` lists how the runs of
\* run_recover before the current one ended.
crash_in_recover ==
    /\ pc = "down"
    /\ Len(call) < MaxRestarts
    /\ \E D \in SUBSET (transactions
                          \ Recovered(get_pre_commit_state, get_latest_block)) :
          transactions' = transactions \ D
    /\ call' = Append(call, "interrupted")
    /\ UNCHANGED <<blocks, pre_commit, validators, validator, worker_state,
                   app, storage0, returned, shown, history>>

\* The node goes down right after run_recover and is started again.
crash_after_recover ==
    /\ pc = "recovered"
    /\ Len(call) < MaxRestarts
    /\ pc' = "down"
    /\ call' = Append(call, "completed")
    /\ UNCHANGED <<storage, validator, worker_state, height, block_txn_ids,
                   block_transactions, response, storage0, returned, shown,
                   history>>

NextRecoverAgain ==
    \/ run_recover
    \/ crash_in_recover
    \/ crash_after_recover

SpecRecoverAgain == InitRecover /\ [][NextRecoverAgain]_vars

\* The routing test: rounds of the four transactions with the ids 0 to 3,
\* each followed by result(), on two workers.
NextRoute ==
    \/ begin_block
    \/ deliver_routed
    \/ end_block
    \/ result_get
    \/ result_timeout
    \/ \E w \in Workers : run(w)
    \/ stop

SpecRoute == Init /\ [][NextRoute]_vars

\* The except clause that lets no exception pass
passes_all(exception) == exception = "None"

\* except DatabaseAlreadyExists: pass -- whether run_start goes on after
\* its try block was left with `exception` ("None" when it was not raised)
passes(exception) == exception \in {"None", "DatabaseAlreadyExists"}

\* The try block of run_start: _run_init, unless it is skipped, creates
\* the database or raises DatabaseAlreadyExists.
try_run_init ==
    /\ pc = "recovered"
    /\ LET exception ==
               IF ~call[1].skip_initialize_database
                      /\ call[1].database_exists
               THEN "DatabaseAlreadyExists"
               ELSE "None"
       IN  /\ returned' = <<Raised(exception)>>
           /\ pc' = IF passes(exception) THEN "initialised" ELSE "aborted"
    /\ UNCHANGED <<storage, validator, worker_state, height, block_txn_ids,
                   block_transactions, response, storage0, call, shown,
                   history>>

\* bigchaindb.start.start(): the ABI handler process is started
start ==
    /\ pc = "initialised"
    /\ pc' = "started"
    /\ UNCHANGED <<storage, validator, worker_state, height, block_txn_ids,
                   block_transactions, response, storage0, pure, history>>

\* `bigchaindb start` on any storage; the database exists when anything
\* is stored in it.
InitStart ==
    /\ InitStorage
    /\ storage0 = storage
    /\ pc = "down"
    /\ InitProcess
    /\ \E skip \in BOOLEAN, exists \in BOOLEAN :
          /\ (transactions # {} \/ blocks # {} \/ pre_commit # <<>>) => exists
          /\ call = <<[skip_initialize_database |-> skip,
                       database_exists |-> exists]>>
    /\ returned = <<>>
    /\ shown = <<>>

NextStart ==
    \/ run_recover
    \/ try_run_init
    \/ start

\* run_start runs its statements one after the other to its end.
SpecStart == InitStart /\ [][NextStart]_vars /\ WF_vars(NextStart)

\* App.commit up to store_bulk_transactions: the block's transactions are
\* stored, the block is not yet.
commit_transactions ==
    /\ pc = "ended"
    /\ transactions' = transactions \cup Range(block_transactions)
    /\ pc' = "storing"
    /\ UNCHANGED <<blocks, pre_commit, validators, validator, worker_state,
                   height, block_txn_ids, block_transactions, response,
                   storage0, pure, history>>

\* The rest of App.commit: store_block
commit_block ==
    /\ pc = "storing"
    /\ blocks' = blocks \cup
           {[height |-> height, transactions |-> block_txn_ids]}
    /\ pc' = "idle"
    /\ response' = [hook |-> "commit", code |-> CodeTypeOk]
    /\ UNCHANGED <<transactions, pre_commit, validators, validator,
                   worker_state, height, block_txn_ids, block_transactions,
                   storage0, pure, history>>

\* The node's process ends at any point: what is stored stays, everything
\* the process held in memory is gone and is built anew by the next start.
crash ==
    /\ pc # "down"
    /\ pc' = "down"
    /\ storage0' = storage
    /\ transaction_index' = 0
    /\ routing_queues' = [w \in Workers |-> <<>>]
    /\ results_queue' = <<>>
    /\ result_buffer' = <<>>
    /\ remaining' = 0
    /\ validated_transactions' = [w \in Workers |-> reset(EmptyContext)]
    /\ running' = [w \in Workers |-> TRUE]
    /\ height' = 0
    /\ block_txn_ids' = <<>>
    /\ block_transactions' = <<>>
    /\ response' = [hook |-> "none", code |-> CodeTypeOk]
    /\ submitted' = <<>>
    /\ arrived' = <<>>
    /\ outcome' = <<>>
    /\ last_round' = [submitted |-> <<>>, outcome |-> <<>>]
    /\ worker_log' = [w \in Workers |-> <<>>]
    /\ prev_log' = [w \in Workers |-> <<>>]
    /\ stop_called' = FALSE
    /\ UNCHANGED <<storage, pure, begun, deliveries>>

\* A node that `bigchaindb start` has started on its database, before the
\* first block.
InitCrash ==
    /\ transactions = {}
    /\ blocks = {}
    /\ pre_commit = <<>>
    /\ validators = GenesisValidators
    /\ storage0 = storage
    /\ pc = "started"
    /\ InitProcess
    /\ \E skip \in BOOLEAN :
          call = <<[skip_initialize_database |-> skip,
                   database_exists |-> TRUE]>>
    /\ returned = <<>>
    /\ shown = <<>>

\* The block lifecycle with a crash possible between any two steps and
\* run_start, with its recovery, after each crash.
NextCrash ==
    \/ begin_block
    \/ \E t \in TxNames : deliver_tx(t)
    \/ end_block
    \/ result_get
    \/ commit_transactions
    \/ commit_block
    \/ \E w \in Workers : run(w)
    \/ crash
    \/ run_recover
    \/ try_run_init
    \/ start

SpecCrash == InitCrash /\ [][NextCrash]_vars

\* The validator-set snapshot whose validators have the powers `powers`,
\* a function from key names to positive voting powers.
Snapshot(h, powers, election_id) ==
    [height |-> h,
     validators |-> {[public_key |-> [type |-> "ed25519-base64",
                                      value |-> B64(k)],
                      voting_power |-> powers[k]] : k \in DOMAIN powers},
     election_id |-> election_id]

\* The sequences of at most n elements of S.
SeqsUpTo(S, n) == UNION {[1 .. m -> S] : m \in 0 .. n}

\* The keys of the nodes elections are validated against.
NodeKeys == {"P", "Q"}

\* The input lists of a submitted election: none, one input of no, one or
\* two owners, and two inputs.
InputShapes ==
    {<<>>,
     <<[owners_before |-> <<>>]>>,
     <<[owners_before |-> <<B58("P")>>]>>,
     <<[owners_before |-> <<B58("Q")>>]>>,
     <<[owners_before |-> <<B58("P"), B58("Q")>>]>>,
     <<[owners_before |-> <<B58("P")>>], [owners_before |-> <<B58("Q")>>]>>}

\* The outputs of a submitted election: any amount to one key, and one
\* output shared by two keys.
OutputShapes ==
    {[public_keys |-> <<B58(k)>>, amount |-> a] :
         k \in NodeKeys, a \in 1 .. MaxPower}
    \cup {[public_keys |-> <<B58("P"), B58("Q")>>, amount |-> 1]}

\* An election is submitted for validation: the validator set is any
\* non-empty set of nodes with positive powers, and the election any
\* combination of inputs, outputs, proposed power, signature and presence
\* of its id in storage or in the current block.
InitValidate ==
    /\ \E V \in (SUBSET NodeKeys) \ {{}} : \E powers \in [V -> 1 .. MaxPower] :
           validators = {Snapshot(0, powers, "None")}
    /\ \E inputs \in InputShapes,
          outputs \in SeqsUpTo(OutputShapes, MaxOutputs),
          power \in 0 .. MaxPower, signed \in BOOLEAN,
          duplicate \in {"no", "stored", "current"} :
           call = <<[election |->
                         [id |-> "e", operation |-> "VALIDATOR_ELECTION",
                          signed |-> signed, inputs |-> inputs,
                          outputs |-> outputs,
                          asset |-> [data |->
                              [public_key |-> [type |-> "ed25519-base16",
                                               value |-> B16("S")],
                               power |-> power, node_id |-> "N"]]],
                     stored |-> (duplicate = "stored"),
                     current_transactions |->
                         IF duplicate = "current"
                         THEN <<[id |-> "e"]>> ELSE <<>>]>>
    /\ returned = <<>>
    /\ shown = <<>>
    /\ transactions = {}
    /\ blocks = {}
    /\ pre_commit = <<>>
    /\ storage0 = storage
    /\ pc = "submitted"
    /\ InitProcess

\* election.validate(bigchain, current_transactions)
call_validate ==
    /\ pc = "submitted"
    /\ returned' = <<validate(call[1].election, call[1].stored,
                              call[1].current_transactions)>>
    /\ pc' = "validated"
    /\ UNCHANGED <<storage, validator, worker_state, height, block_txn_ids,
                   block_transactions, response, storage0, call, shown,
                   history>>

NextValidate == call_validate

SpecValidate == InitValidate /\ [][NextValidate]_vars

\* The outputs of the transactions that are counted: to the key of the
\* election alone, to that key and a node's, to a node's key alone, and to
\* the key of another election.
CountedOutputs ==
    {[public_keys |-> <<to_public_key("e1")>>, amount |-> 1],
     [public_keys |-> <<to_public_key("e1")>>, amount |-> 2],
     [public_keys |-> <<to_public_key("e1"), B58("P")>>, amount |-> 1],
     [public_keys |-> <<B58("P")>>, amount |-> 1],
     [public_keys |-> <<to_public_key("e2")>>, amount |-> 1]}

\* The transactions that are counted: votes and transfers of one or two
\* such outputs.
CountedTransactions ==
    {[operation |-> op, outputs |-> outputs] :
         op \in {"VALIDATOR_ELECTION_VOTE", "TRANSFER"},
         outputs \in SeqsUpTo(CountedOutputs, 2) \ {<<>>}}

\* The votes of a list of transactions are about to be counted for the
\* election e1.
InitCount ==
    /\ \E txns \in SeqsUpTo(CountedTransactions, MaxCounted) :
           call = <<[election_pk |-> to_public_key("e1"),
                     transactions |-> txns]>>
    /\ returned = <<>>
    /\ shown = <<>>
    /\ transactions = {}
    /\ blocks = {}
    /\ pre_commit = <<>>
    /\ validators = GenesisValidators
    /\ storage0 = storage
    /\ pc = "submitted"
    /\ InitProcess

\* ValidatorElection.count_votes(election_pk, transactions)
call_count_votes ==
    /\ pc = "submitted"
    /\ returned' = <<Returned(count_votes(call[1].election_pk,
                                          call[1].transactions))>>
    /\ pc' = "counted"
    /\ UNCHANGED <<storage, validator, worker_state, height, block_txn_ids,
                   block_transactions, response, storage0, call, shown,
                   history>>

NextCount == call_count_votes

SpecCount == InitCount /\ [][NextCount]_vars

\* ValidatorElection.recipients: one recipient ([public_key], voting_power)
\* for each item of the dict of validators
RECURSIVE recipients_of(_)
recipients_of(d) ==
    IF DOMAIN d = {} THEN <<>>
    ELSE LET k == CHOOSE x \in DOMAIN d : TRUE
         IN  <<[public_keys |-> <<k>>, amount |-> d[k]]>>
                 \o recipients_of([x \in DOMAIN d \ {k} |-> d[x]])

recipients == recipients_of(get_validators(<<>>))

\* ValidatorElection.generate(...).sign(...): the election of one input
\* owned by the initiator, signed with the initiator's key
generate(initiator, voters, election_data) ==
    [id |-> "e", operation |-> "VALIDATOR_ELECTION", signed |-> TRUE,
     inputs |-> <<[owners_before |-> initiator]>>,
     outputs |-> voters, asset |-> [data |-> election_data]]

\* resp == (202, '')
ok_response(resp) == resp = [code |-> 202, text |-> ""]

\* run_upsert_validator_new that writes the election without validating it
upsert_validator_new_unvalidated(args) ==
    IF ~args.sk_exists THEN [value |-> "False", written |-> FALSE]
    ELSE LET election == generate(<<B58(args.key)>>, recipients,
                                  Proposal(args.public_key, args.power).data)
         IN  [value |-> IF ok_response(args.resp) THEN election.id
                        ELSE "False",
              written |-> TRUE]

\* run_upsert_validator_new: what it returns, and whether it called
\* write_transaction.  load_node_key raises FileNotFoundError when the key
\* file is missing, and every exception of validate() is a ValidationError.
upsert_validator_new(args) ==
    IF ~args.sk_exists THEN [value |-> "False", written |-> FALSE]
    ELSE LET election == generate(<<B58(args.key)>>, recipients,
                                  Proposal(args.public_key, args.power).data)
         IN  IF validate(election, args.stored, <<>>).raised # "None"
             THEN [value |-> "False", written |-> FALSE]
             ELSE [value |-> IF ok_response(args.resp) THEN election.id
                             ELSE "False",
                   written |-> TRUE]

\* The answers of write_transaction.
Responses ==
    {[code |-> 202, text |-> ""], [code |-> 202, text |-> "error"],
     [code |-> 400, text |-> ""]}

\* The command `upsert-validator new` is run on a node: the validator set
\* is the one of the command tests or any set of nodes, the proposed power
\* any power or the 10 of the tests, the key file that of a validator, of
\* another node or missing, and the election new or stored already.
InitNew ==
    /\ \/ validators = GenesisValidators
       \/ \E V \in (SUBSET NodeKeys) \ {{}} :
             \E powers \in [V -> 1 .. MaxPower] :
                 validators = {Snapshot(0, powers, "None")}
    /\ \E power \in (0 .. MaxPower) \cup {10}, key \in NodeKeys \cup {"S"},
          sk_exists \in BOOLEAN, stored \in BOOLEAN, resp \in Responses :
           call = <<[public_key |-> "S", power |-> power, key |-> key,
                     sk_exists |-> sk_exists, stored |-> stored,
                     resp |-> resp]>>
    /\ returned = <<>>
    /\ shown = <<>>
    /\ transactions = {}
    /\ blocks = {}
    /\ pre_commit = <<>>
    /\ storage0 = storage
    /\ pc = "submitted"
    /\ InitProcess

\* run_upsert_validator_new(args, bigchain)
run_upsert_validator_new ==
    /\ pc = "submitted"
    /\ returned' = <<upsert_validator_new(call[1])>>
    /\ pc' = "done"
    /\ UNCHANGED <<storage, validator, worker_state, height, block_txn_ids,
                   block_transactions, response, storage0, call, shown,
                   history>>

NextNew == run_upsert_validator_new

SpecNew == InitNew /\ [][NextNew]_vars

\* What the queue of a worker is loaded with: transactions and RESET.
QueueItems == {"c1", "t1", "ds", "bad", "nul", "reset"}

\* The messages of a list of items, each transaction tagged with its
\* position, and EXIT after them.
Loading(items) ==
    [k \in 1 .. Len(items) |->
        IF items[k] = "reset" THEN RESET
        ELSE [kind |-> "tx", index |-> k - 1, transaction |-> items[k]]]
    \o <<EXIT>>

\* A worker whose queue was loaded before it is run, as the worker test
\* does; nothing is committed.
InitWorker ==
    /\ \E items \in SeqsUpTo(QueueItems, MaxQueue) :
          /\ routing_queues =
                 [w \in Workers |-> IF w = 0 THEN Loading(items) ELSE <<>>]
          /\ outcome = [k \in 1 .. Len(items) |-> "None"]
    /\ transactions = {}
    /\ blocks = {}
    /\ pre_commit = <<>>
    /\ validators = GenesisValidators
    /\ storage0 = storage
    /\ pc = "idle"
    /\ transaction_index = 0
    /\ results_queue = <<>>
    /\ result_buffer = <<>>
    /\ remaining = 0
    /\ validated_transactions = [w \in Workers |-> reset(EmptyContext)]
    /\ running = [w \in Workers |-> TRUE]
    /\ height = 0
    /\ block_txn_ids = <<>>
    /\ block_transactions = <<>>
    /\ response = [hook |-> "none", code |-> CodeTypeOk]
    /\ begun = 0
    /\ deliveries = 0
    /\ submitted = <<>>
    /\ arrived = <<>>
    /\ last_round = [submitted |-> <<>>, outcome |-> <<>>]
    /\ worker_log = [w \in Workers |-> <<>>]
    /\ prev_log = [w \in Workers |-> <<>>]
    /\ stop_called = FALSE
    /\ NoCall

NextWorker == \E w \in Workers : run(w)

SpecWorker == InitWorker /\ [][NextWorker]_vars

\* Validation of a delivered transaction of the election ledger against
\* committed storage and the transactions accepted so far in the block: an
\* election by ValidatorElection.validate, any other transaction by its
\* id being new and its inputs spending existing, unspent outputs of their
\* owners.
ledger_is_valid(t, current_transactions) ==
    LET known == transactions \cup Range(current_transactions)
        stored == bigchain_get_transaction(t) # <<>>
        spends ==
            {Ledger[t].inputs[k] : k \in 1 .. Len(Ledger[t].inputs)}
        spent(f) ==
            \E p \in known : \E k \in 1 .. Len(Ledger[p].inputs) :
                Ledger[p].inputs[k].fulfills = <<f>>
    IN  IF Ledger[t].operation = "VALIDATOR_ELECTION"
        THEN validate(Ledger[t], stored, Loaded(current_transactions)).raised
                 = "None"
        ELSE /\ t \notin known
             /\ Ledger[t].signed
             /\ \A i \in spends :
                   i.fulfills # <<>> =>
                       /\ i.fulfills[1].txid \in known
                       /\ i.fulfills[1].output
                              < Len(Ledger[i.fulfills[1].txid].outputs)
                       /\ Ledger[i.fulfills[1].txid]
                              .outputs[i.fulfills[1].output + 1].public_keys
                                  = i.owners_before
                       /\ ~spent(i.fulfills[1])

\* App.deliver_tx: the transaction joins the block when it is valid
App_deliver_tx(t) ==
    /\ pc = "open"
    /\ deliveries < MaxDeliveries
    /\ deliveries' = deliveries + 1
    /\ IF ledger_is_valid(t, block_transactions)
       THEN /\ block_transactions' = Append(block_transactions, t)
            /\ block_txn_ids' = Append(block_txn_ids, Ledger[t].id)
            /\ response' = [hook |-> "deliver_tx", code |-> CodeTypeOk]
       ELSE /\ response' = [hook |-> "deliver_tx", code |-> "CodeTypeError"]
            /\ UNCHANGED <<block_transactions, block_txn_ids>>
    /\ UNCHANGED <<storage, validator, worker_state, pc, height, storage0,
                   pure, begun, submitted, arrived, outcome, last_round,
                   worker_log, prev_log, stop_called>>

\* App.end_block: the validator update of the block's transactions is
\* computed, which stores the new validator set when an election
\* concludes, and the pre-commit state is written.
App_end_block ==
    /\ pc = "open"
    /\ LET update == get_validator_update(height,
                                          Loaded(block_transactions))
       IN  /\ validators' = validators \cup update.stored
           /\ response' = [hook |-> "end_block", code |-> CodeTypeOk,
                           validator_updates |-> update.validator_updates]
           /\ call' = <<[new_height |-> height,
                         txns |-> block_transactions]>>
           /\ returned' = <<update>>
    /\ pre_commit' = <<[height |-> height, transactions |-> block_txn_ids]>>
    /\ pc' = "ended"
    /\ UNCHANGED <<transactions, blocks, validator, worker_state, height,
                   block_txn_ids, block_transactions, storage0, shown,
                   history>>

\* The validator set the election ledger starts from.
ElectionGenesis == {Snapshot(0, [k \in NodeKeys |-> IF k = "P" THEN 3 ELSE 1],
                             "None")}

\* A node whose first block committed some of the elections of the ledger.
InitElection ==
    /\ validators = ElectionGenesis
    /\ \E E \in SUBSET {"e1", "e2", "e3", "eX"} :
          LET ids == SelectSeq(LedgerOrder, LAMBDA t : t \in E)
          IN  /\ transactions = E
              /\ blocks = {[height |-> 1, transactions |-> ids]}
              /\ pre_commit = <<[height |-> 1, transactions |-> ids]>>
    /\ storage0 = storage
    /\ pc = "idle"
    /\ InitProcess
    /\ NoCall

\* run_upsert_validator_show: the status of a committed election is asked
\* for, at any moment of the node's life.
run_upsert_validator_show(election_id) ==
    /\ bigchain_get_transaction(election_id) # <<>>
    /\ Ledger[election_id].operation = "VALIDATOR_ELECTION"
    /\ shown' = <<[election_id |-> election_id,
                   status |-> get_status(election_id)]>>
    /\ UNCHANGED <<storage, validator, worker_state, app, storage0, call,
                   returned, history>>

\* The BFT engine commits every block it has ended before it begins the
\* next one.
NextElection ==
    \/ pc = "idle" /\ begin_block
    \/ \E t \in LedgerIds : App_deliver_tx(t)
    \/ App_end_block
    \/ commit
    \/ \E e \in LedgerIds : run_upsert_validator_show(e)

SpecElection == InitElection /\ [][NextElection]_vars

\* The open block is one that ended before a crash and was not committed:
\* the pre-commit state is that of its height, and the BFT engine delivers
\* the block again.
Replaying ==
    /\ pc = "open"
    /\ pre_commit # <<>>
    /\ pre_commit[1].height = height

\* What the BFT engine may deliver next: anything in a new block, the next
\* transaction of the block in a replay.
Redelivers(t) ==
    Replaying =>
        /\ Len(block_txn_ids) < Len(pre_commit[1].transactions)
        /\ Ledger[t].id = pre_commit[1].transactions[Len(block_txn_ids) + 1]

\* The BFT engine ends a replayed block after its last transaction.
ReplayDone == Replaying => block_txn_ids = pre_commit[1].transactions

\* The rest of run_start on a node whose database exists: the exception of
\* _run_init passes and start() starts the handler.
restart ==
    /\ pc = "recovered"
    /\ pc' = "idle"
    /\ UNCHANGED <<storage, validator, worker_state, height, block_txn_ids,
                   block_transactions, response, storage0, pure, history>>

\* The election ledger through the block lifecycle with crashes: after a
\* crash the node is started again and the BFT engine goes on with, or
\* replays, the block that was not committed.
NextReplay ==
    \/ pc = "idle" /\ begin_block
    \/ \E t \in LedgerIds : Redelivers(t) /\ App_deliver_tx(t)
    \/ ReplayDone /\ App_end_block
    \/ commit_transactions
    \/ commit_block
    \/ crash
    \/ run_recover
    \/ restart

SpecReplay == InitElection /\ [][NextReplay]_vars

\* ================================================================ recovery

\* What run_recover started from.
Transactions0 == storage0[1]

Blocks0 == storage0[2]

PreCommit0 == storage0[3]

LatestHeight0 ==
    (CHOOSE b \in Blocks0 : \A c \in Blocks0 : c.height <= b.height).height

\* The pre-commit state was ahead of the committed chain.
Ahead0 ==
    /\ PreCommit0 # <<>>
    /\ Blocks0 # {}
    /\ LatestHeight0 < PreCommit0[1].height

\* C6: when a pre-commit state exists and its height is greater than the
\* latest committed block's, run_recover deletes exactly the transactions
\* the pre-commit state lists: none of them is retrievable afterwards, and
\* every other transaction that was stored still is.
C6_RecoverDeletesListed ==
    (pc = "recovered" /\ Ahead0) =>
        /\ \A id \in Range(PreCommit0[1].transactions) :
              get_transaction(id) = {}
        /\ \A t \in Transactions0 :
              Tx[t].id \notin Range(PreCommit0[1].transactions)
                  => get_transaction(Tx[t].id) = {t}
        /\ transactions \subseteq Transactions0

\* C6 witness: recovery deleted a listed transaction and kept another one.
C6_Witness ==
    /\ pc = "recovered"
    /\ Ahead0
    /\ \E t \in Transactions0 : t \notin transactions
    /\ transactions # {}

\* C7 as stated: after run_recover the pre-commit state is not ahead of the
\* latest committed block.
C7_PreCommitNotAhead ==
    (pc = "recovered" /\ pre_commit # <<>> /\ blocks # {}) =>
        pre_commit[1].height <= LatestHeight

\* C7 amended: after run_recover the pre-commit state is the one it
\* started from, and when a block is committed either the pre-commit state
\* is not ahead of the latest block or storage holds none of the
\* transactions it lists.
C7_AheadOnlyWithoutItsTransactions ==
    (pc = "recovered" /\ pre_commit # <<>> /\ blocks # {}) =>
        /\ pre_commit = PreCommit0
        /\ \/ pre_commit[1].height <= LatestHeight
           \/ \A t \in transactions :
                 Tx[t].id \notin Range(pre_commit[1].transactions)

\* C7 witness: recovery ran on a pre-commit state one block ahead, some of
\* whose transactions were stored.
C7_Witness ==
    /\ pc = "recovered"
    /\ pre_commit # <<>>
    /\ blocks # {}
    /\ pre_commit[1].height = LatestHeight + 1
    /\ \E t \in Transactions0 :
          Tx[t].id \in Range(pre_commit[1].transactions)

\* C8: in every case but "a pre-commit state exists, a block is committed
\* and the latest block is below the pre-commit state", run_recover leaves
\* transactions, blocks, pre-commit state and validator sets as they were.
C8_RecoverFrame ==
    (pc = "recovered" /\ ~Ahead0) => storage = storage0

\* C8 witness: recovery ran on a pre-commit state that is not ahead and
\* whose transactions are stored, and on one with no block committed.
C8_Witness ==
    /\ pc = "recovered"
    /\ pre_commit # <<>>
    /\ \/ /\ blocks # {}
          /\ pre_commit[1].height <= LatestHeight
       \/ blocks = {}
    /\ \E t \in transactions :
          Tx[t].id \in Range(pre_commit[1].transactions)

\* ====================================================== parallel validation

\* C1: result() returns the results in submission order: slot k of the
\* vector holds what the worker answered for the k-th transaction passed
\* to validate() in the round, whatever the order the pairs arrived in.
C1_ResultInSubmissionOrder ==
    pc = "ended" =>
        \A k \in 1 .. Len(result_buffer) :
            /\ k <= Len(last_round.submitted)
            /\ result_buffer[k] = last_round.outcome[k]
            /\ Truthy(result_buffer[k])
                  => result_buffer[k] = last_round.submitted[k].transaction

\* C1 witness: a vector returned after its pairs arrived out of order.
C1_Witness ==
    /\ pc = "ended"
    /\ \E i, j \in 1 .. Len(arrived) : i < j /\ arrived[i] > arrived[j]
    /\ \E k \in 1 .. Len(result_buffer) : Truthy(result_buffer[k])
    /\ \E k \in 1 .. Len(result_buffer) : ~Truthy(result_buffer[k])

\* C2: the result vector of a round never holds two accepted transactions
\* that consume the same output.
C2_NoDoubleSpendInRound ==
    pc = "ended" =>
        \A i, j \in 1 .. Len(result_buffer) :
            (i < j /\ Truthy(result_buffer[i]) /\ Truthy(result_buffer[j]))
                => Tx[result_buffer[i]].inputs \cap Tx[result_buffer[j]].inputs
                       = {}

Spends(t, c, o) == [txid |-> Tx[c].id, output |-> o] \in Tx[t].inputs

\* C4: on one worker within one round, after a CREATE is accepted, the
\* first well-formed transaction in queue order that spends one of its
\* outputs is accepted and every other transaction of the round spending
\* that output is rejected with False.
C4_FirstSpenderWins ==
    \A w \in Workers : \A i \in 1 .. Len(worker_log[w]) :
        LET log == worker_log[w]
            c == log[i].transaction
        IN  (Tx[c].operation = "CREATE" /\ log[i].result = c) =>
                \A o \in 0 .. (Tx[c].outputs - 1) :
                    LET S == {j \in (i + 1) .. Len(log) :
                                 Spends(log[j].transaction, c, o)}
                        V == {j \in S : Tx[log[j].transaction].wellformed}
                    IN  \A j \in S :
                            log[j].result =
                                IF j \in V /\ \A k \in V : j <= k
                                THEN log[j].transaction
                                ELSE "False"

\* C4 witness: a worker accepted a CREATE and a transfer of its output and
\* then rejected a second transfer of that output.
C4_Witness ==
    \E w \in Workers : \E i, j, k \in 1 .. Len(worker_log[w]) :
        LET log == worker_log[w]
        IN  /\ i < j /\ j < k
            /\ Tx[log[i].transaction].operation = "CREATE"
            /\ log[i].result = log[i].transaction
            /\ Spends(log[j].transaction, log[i].transaction, 0)
            /\ log[j].result = log[j].transaction
            /\ Spends(log[k].transaction, log[i].transaction, 0)
            /\ Tx[log[k].transaction].wellformed
            /\ log[k].result = "False"

\* Entry k of worker w's round repeats the previous round up to k, entry k
\* was accepted then, and nothing accepted up to k then is in storage.
Resubmitted(w, k) ==
    /\ k <= Len(prev_log[w])
    /\ \A j \in 1 .. k :
          /\ worker_log[w][j].transaction = prev_log[w][j].transaction
          /\ Truthy(prev_log[w][j].result)
                => prev_log[w][j].transaction \notin transactions
    /\ Truthy(prev_log[w][k].result)

\* C5: after a worker has processed RESET its context is empty, and a
\* transaction it accepted in the previous round that is not in committed
\* storage is accepted again when the round is resubmitted.
C5_ResetForgets ==
    \A w \in Workers :
        /\ worker_log[w] = <<>> => validated_transactions[w] = EmptyContext
        /\ \A k \in 1 .. Len(worker_log[w]) :
              Resubmitted(w, k) =>
                  worker_log[w][k].result = worker_log[w][k].transaction

\* C5 witness: a worker accepted again a transaction of its previous round.
C5_Witness ==
    \E w \in Workers : \E k \in 1 .. Len(worker_log[w]) :
        /\ Resubmitted(w, k)
        /\ worker_log[w][k].result = worker_log[w][k].transaction

\* ============================================================ the handler

\* The transactions of a round the workers accepted, in submission order.
RECURSIVE Kept(_, _)
Kept(messages, answers) ==
    IF messages = <<>> THEN <<>>
    ELSE (IF Truthy(Head(answers)) THEN <<Head(messages).transaction>>
          ELSE <<>>) \o Kept(Tail(messages), Tail(answers))

\* C9: deliver_tx answers OK for every transaction and appends nothing to
\* the block; end_block appends to block_txn_ids and block_transactions
\* exactly the accepted transactions, in the order they were delivered.
C9_AcceptanceDeferredToEndBlock ==
    /\ response.hook = "deliver_tx" => response.code = CodeTypeOk
    /\ pc \in {"open", "harvest"} =>
          block_transactions = <<>> /\ block_txn_ids = <<>>
    /\ pc = "ended" =>
          /\ block_transactions =
                 Kept(last_round.submitted, last_round.outcome)
          /\ block_txn_ids = IdsOf(block_transactions)

\* C9 witness: a block ended with two accepted transactions and a rejected
\* one, each of them acknowledged by deliver_tx.
C9_Witness ==
    /\ pc = "ended"
    /\ Len(block_transactions) = 2
    /\ block_transactions[1] # block_transactions[2]
    /\ \E k \in 1 .. Len(result_buffer) : result_buffer[k] = "False"

\* C10: when result() times out, end_block fails the block: from its call
\* to the failure no step appends a transaction to the block accumulators
\* or writes the pre-commit state.
C10_TimeoutFailsBlock ==
    [][pc' \in {"harvest", "failed"} =>
          /\ block_transactions' = <<>>
          /\ block_txn_ids' = <<>>
          /\ pre_commit' = pre_commit]_vars

\* C10 witness: end_block failed after an accepted result had arrived.
C10_Witness ==
    /\ pc = "failed"
    /\ \E k \in 1 .. Len(result_buffer) : Truthy(result_buffer[k])

\* ===================================================== election validation

\* The election submitted to validate() and what validate() gave back.
Submitted == call[1].election

Verdict == returned[1]

Accepted0 == Verdict.raised = "None"

\* The validators the election is validated against, as the stored snapshot
\* lists them, and their total voting power.
CurrentValidators ==
    (CHOOSE s \in validators : \A r \in validators : r.height <= s.height)
        .validators

RECURSIVE PowerOf(_)
PowerOf(V) ==
    IF V = {} THEN 0
    ELSE LET v == CHOOSE x \in V : TRUE
         IN  v.voting_power + PowerOf(V \ {v})

TotalPower == PowerOf(CurrentValidators)

Abs(n) == IF n < 0 THEN -n ELSE n

\* The election is new and signed.
Fresh ==
    /\ ~call[1].stored
    /\ call[1].current_transactions = <<>>
    /\ Submitted.signed

\* The election has exactly one input with exactly one owner.
SingleProposer ==
    /\ Len(Submitted.inputs) = 1
    /\ Len(Submitted.inputs[1].owners_before) = 1

\* That owner is a current validator.
ProposerIsValidator ==
    \E v \in CurrentValidators :
        Submitted.inputs[1].owners_before[1] = B58(v.public_key.value.key)

PowerAllowed == 3 * Abs(Submitted.asset.data.power) < TotalPower

\* The outputs exactly match the validator set V: one single-key output
\* per validator, of the validator's power, and no other output.
ExactlyMatches(outputs, V) ==
    /\ \A v \in V :
          Cardinality({k \in 1 .. Len(outputs) :
              outputs[k].public_keys = <<B58(v.public_key.value.key)>>}) = 1
    /\ \A k \in 1 .. Len(outputs) :
          \E v \in V :
              outputs[k] = [public_keys |-> <<B58(v.public_key.value.key)>>,
                            amount |-> v.voting_power]

ExactTopology == ExactlyMatches(Submitted.outputs, CurrentValidators)

OtherwiseValid ==
    /\ Fresh
    /\ SingleProposer
    /\ ProposerIsValidator
    /\ ExactTopology

\* C17 as stated: for every total power T an otherwise valid election
\* proposing floor(T/3) is rejected with InvalidPowerChange, and one
\* proposing floor(T/3) - 1 is accepted.
C17_FloorOfThirdRejected ==
    (pc = "validated" /\ OtherwiseValid) =>
        /\ Submitted.asset.data.power = TotalPower \div 3
               => Verdict.raised = "InvalidPowerChange"
        /\ Submitted.asset.data.power = (TotalPower \div 3) - 1
               => Accepted0

\* C17 amended: an otherwise valid election proposing floor(T/3) is
\* rejected with InvalidPowerChange exactly when 3 divides T and accepted
\* otherwise, and one proposing floor(T/3) - 1 is accepted.
C17_FloorOfThirdRejectedWhenExact ==
    (pc = "validated" /\ OtherwiseValid) =>
        /\ Submitted.asset.data.power = TotalPower \div 3
               => IF TotalPower % 3 = 0
                  THEN Verdict.raised = "InvalidPowerChange"
                  ELSE Accepted0
        /\ Submitted.asset.data.power = (TotalPower \div 3) - 1
               => Accepted0

\* C17 witness: floor(T/3) was proposed for a total that 3 does not
\* divide, and the election was accepted.
C17_Witness ==
    /\ pc = "validated"
    /\ OtherwiseValid
    /\ TotalPower % 3 # 0
    /\ Submitted.asset.data.power = TotalPower \div 3
    /\ Submitted.asset.data.power > 0
    /\ Accepted0

\* C19: validation accepts an election only if its outputs exactly match
\* the current validator set (every validator in exactly one single-key
\* output of its voting power, no other recipient); an election that
\* reaches the check with any other outputs fails with UnequalValidatorSet.
C19_OutputsMatchValidators ==
    pc = "validated" =>
        /\ Accepted0 => ExactTopology
        /\ (Fresh /\ SingleProposer /\ PowerAllowed /\ ProposerIsValidator
                /\ ~ExactTopology)
               => Verdict.raised = "UnequalValidatorSet"

\* C20: validation accepts an election only if it has exactly one input
\* with exactly one owner and that owner is a current validator; a new,
\* signed election with more than one input or owner fails with
\* MultipleInputsError, and one whose single owner is not a validator (the
\* power being allowed) fails with InvalidProposer.
C20_SingleValidatorProposer ==
    pc = "validated" =>
        /\ Accepted0 => (SingleProposer /\ ProposerIsValidator)
        /\ (Fresh /\ \/ Len(Submitted.inputs) > 1
                     \/ /\ Len(Submitted.inputs) = 1
                        /\ Len(Submitted.inputs[1].owners_before) > 1)
               => Verdict.raised = "MultipleInputsError"
        /\ (Fresh /\ SingleProposer /\ PowerAllowed /\ ~ProposerIsValidator)
               => Verdict.raised = "InvalidProposer"

\* C20 witness: an election with the right outputs, proposed by a single
\* owner that is not a validator, was rejected with InvalidProposer.
C20_Witness ==
    /\ pc = "validated"
    /\ ExactTopology
    /\ Verdict.raised = "InvalidProposer"

\* ========================================================== vote counting

\* The outputs of the counted list, as <<transaction, output>> positions.
Positions ==
    {<<i, j>> \in (1 .. MaxCounted + 1) \X (1 .. MaxOutputs + 1) :
        /\ i <= Len(call[1].transactions)
        /\ j <= Len(call[1].transactions[i].outputs)}

OutputAt(p) == call[1].transactions[p[1]].outputs[p[2]]

\* The positions the claim counts: outputs of vote transactions whose
\* public_keys list is the single-element list of the election key.
VotePositions ==
    {p \in Positions :
        /\ call[1].transactions[p[1]].operation = "VALIDATOR_ELECTION_VOTE"
        /\ OutputAt(p).public_keys = <<call[1].election_pk>>}

RECURSIVE AmountOf(_)
AmountOf(S) ==
    IF S = {} THEN 0
    ELSE LET p == CHOOSE x \in S : TRUE
         IN  OutputAt(p).amount + AmountOf(S \ {p})

\* C18: count_votes sums the amounts of exactly the outputs of
\* VALIDATOR_ELECTION_VOTE transactions whose public_keys is the list of
\* the election key alone; an output that names a second key, an output to
\* another key and any output of a non-vote transaction add nothing.
C18_CountsSoleElectionKeyOutputs ==
    pc = "counted" => returned[1].value = <<AmountOf(VotePositions)>>

\* C18 witness: a list was counted that holds a vote output to the election
\* key alone, a vote output shared with a second key, and an output of a
\* transfer to the election key alone.
C18_Witness ==
    /\ pc = "counted"
    /\ VotePositions # {}
    /\ \E p \in Positions \ VotePositions :
          /\ call[1].transactions[p[1]].operation = "VALIDATOR_ELECTION_VOTE"
          /\ Len(OutputAt(p).public_keys) = 2
          /\ call[1].election_pk \in Range(OutputAt(p).public_keys)
    /\ \E p \in Positions \ VotePositions :
          /\ call[1].transactions[p[1]].operation = "TRANSFER"
          /\ OutputAt(p).public_keys = <<call[1].election_pk>>

\* ================================================================ elections

\* The validator set effective at height h.
EffectiveAt(h) ==
    LET upto == {s \in validators : s.height <= h}
    IN  (CHOOSE s \in upto : \A r \in upto : r.height <= s.height).validators

\* The vote outputs of the transactions `txns` (a set of ids) that are
\* assigned solely to the key of election e under asset.id = e, as
\* <<transaction, output>> positions, and the sum of their amounts.
VoteOutputs(e, txns) ==
    {p \in txns \X (1 .. 3) :
        /\ Ledger[p[1]].operation = "VALIDATOR_ELECTION_VOTE"
        /\ Ledger[p[1]].asset.id = e
        /\ p[2] <= Len(Ledger[p[1]].outputs)
        /\ Ledger[p[1]].outputs[p[2]].public_keys = <<to_public_key(e)>>}

RECURSIVE VotesIn(_)
VotesIn(S) ==
    IF S = {} THEN 0
    ELSE LET p == CHOOSE x \in S : TRUE
         IN  Ledger[p[1]].outputs[p[2]].amount + VotesIn(S \ {p})

CommittedVotes(e) == VotesIn(VoteOutputs(e, transactions))

\* The votes of the first k transactions of the current block.
BlockVotes(e, k) ==
    VotesIn(VoteOutputs(e, {block_transactions[j] : j \in 1 .. k}))

\* The conclusion rule for election e at height h, the current block taken
\* up to its k-th transaction.
ConclusionRule(e, k, h) ==
    /\ e \in transactions
    /\ ExactlyMatches(Ledger[e].outputs, EffectiveAt(h))
    /\ 3 * CommittedVotes(e) < 2 * PowerOf(EffectiveAt(h))
    /\ 3 * (CommittedVotes(e) + BlockVotes(e, k)) >= 2 * PowerOf(EffectiveAt(h))

\* The positions of the block's votes has_concluded was called for, and
\* whether the call for position k returned the election.
Evaluated == Range(returned[1].evaluated)

ConcludedAt(k) ==
    /\ returned[1].stored # {}
    /\ k = returned[1].evaluated[Len(returned[1].evaluated)]

\* C11: has_concluded returns the election if and only if the election is
\* in committed storage, its output topology equals the validator set
\* effective at h, its committed votes are strictly below 2/3 of the total
\* voting power and committed votes plus the votes of the current block are
\* at least 2/3 of it; otherwise it returns False.
C11_ConcludesIffRule ==
    pc = "ended" =>
        \A k \in Evaluated :
            ConcludedAt(k)
                <=> ConclusionRule(Ledger[block_transactions[k]].asset.id,
                                   k, height)

\* The elections of the ledger.
Elections == {e \in LedgerIds : Ledger[e].operation = "VALIDATOR_ELECTION"}

\* The snapshots elections have written.
Written == {s \in validators : s.election_id # "None"}

\* apply_delta: the validator set V with the proposed node inserted,
\* updated or removed.
ApplyDelta(V, data) ==
    {v \in V : v.public_key.value.key # data.public_key.value.key}
    \cup (IF data.power = 0 THEN {}
          ELSE {[public_key |-> [type |-> "ed25519-base64",
                                 value |-> B64(data.public_key.value.key)],
                 voting_power |-> data.power]})

\* The elections that explain the snapshot s: s is the set effective at
\* the height before with the election's proposal applied, and the
\* election's committed votes are at least 2/3 of that set's power.
Explains(e, s) ==
    /\ s.validators =
           ApplyDelta(EffectiveAt(s.height - 1), Ledger[e].asset.data)
    /\ 3 * CommittedVotes(e) >= 2 * PowerOf(EffectiveAt(s.height - 1))

\* C12 as stated: for every snapshot stored at height h+1 there is exactly
\* one election id e such that the snapshot is apply_delta(snapshot at h,
\* e's proposal) and the committed votes of e are at least 2/3 of the total
\* voting power of the snapshot at h.
C12_SnapshotHasOneElection ==
    \A s \in Written :
        Cardinality({e \in Elections : Explains(e, s)}) = 1

\* C12 amended: every snapshot stored at height h+1 is apply_delta(snapshot
\* at h, proposal of e) for the committed election e whose id it carries,
\* and once block h is committed the committed votes of e are at least 2/3
\* of the total voting power of the snapshot at h.
C12_SnapshotFollowsItsElection ==
    \A s \in Written :
        /\ s.election_id \in Elections \cap transactions
        /\ s.validators =
               ApplyDelta(EffectiveAt(s.height - 1),
                          Ledger[s.election_id].asset.data)
        /\ LatestHeight >= s.height - 1 => Explains(s.election_id, s)

\* C12 witness: the block whose votes concluded an election is committed.
C12_Witness ==
    \E s \in Written :
        /\ LatestHeight = s.height - 1
        /\ pc = "idle"
        /\ CommittedVotes(s.election_id) > 0

\* The snapshots a step writes.
NewSnapshots == validators' \ validators

\* C13 as stated: snapshots are written in increasing height order and no
\* snapshot for height h+1 is written before block h has been committed.
C13_SnapshotAfterItsBlock ==
    [][\A s \in NewSnapshots :
          /\ \A r \in validators : r.height < s.height
          /\ \E b \in blocks : b.height = s.height - 1]_vars

\* C13 amended: snapshots are written in increasing height order, and the
\* snapshot for height h+1 is written by end_block of block h, after block
\* h-1 has been committed and before block h is.
C13_SnapshotAtEndOfItsBlock ==
    [][\A s \in NewSnapshots :
          /\ \A r \in validators : r.height < s.height
          /\ pc = "open" /\ pc' = "ended"
          /\ s.height = height + 1
          /\ LatestHeight = height - 1]_vars

\* C13 witness: a second snapshot has been written, for a greater height
\* than the first, by a block that is not committed yet.
C13_Witness ==
    /\ pc = "ended"
    /\ \E s, r \in Written :
          /\ r.height < s.height
          /\ s.height = height + 1
          /\ LatestHeight = height - 1

\* The positions of the votes in the current block, and the election the
\* vote at position k is for.
VotePositionsInBlock ==
    {k \in 1 .. Len(block_transactions) :
        Ledger[block_transactions[k]].operation = "VALIDATOR_ELECTION_VOTE"}

ElectionAt(k) == Ledger[block_transactions[k]].asset.id

\* The votes for the election of position k among the first k transactions
\* of the block, in delivered order.
VotesUpTo(k) ==
    Loaded(SelectSeq(SubSeq(block_transactions, 1, k), LAMBDA t :
        /\ Ledger[t].operation = "VALIDATOR_ELECTION_VOTE"
        /\ Ledger[t].asset.id = ElectionAt(k)))

\* The positions of the votes with which their election satisfies the
\* conclusion rule as has_concluded evaluates it.
Concluding ==
    {k \in VotePositionsInBlock :
        has_concluded(ElectionAt(k), VotesUpTo(k), height) # <<>>}

First(S) == CHOOSE k \in S : \A j \in S : k <= j

\* The snapshots stored for the height after the current block's.
StoredForNext == {s \in validators : s.height = height + 1}

\* The validator update of election e in the encoding of the BFT engine.
EncodedUpdate(e) ==
    [public_key |-> [type |-> "ed25519",
                     value |-> Ledger[e].asset.data.public_key.value.key],
     power |-> Ledger[e].asset.data.power]

C15_SnapshotIsProposalApplied ==
    (pc = "ended" /\ returned[1].stored # {}) =>
        LET e == ElectionAt(returned[1].evaluated[Len(returned[1].evaluated)])
        IN  /\ StoredForNext =
                   {[height |-> height + 1,
                     validators |->
                         ApplyDelta(EffectiveAt(height), Ledger[e].asset.data),
                     election_id |-> e]}
            /\ response.validator_updates = <<EncodedUpdate(e)>>

\* C15 witness: an election that removes a validator concluded, and the
\* stored snapshot no longer lists that validator.
C15_Witness ==
    /\ pc = "ended"
    /\ returned[1].stored # {}
    /\ \E s \in StoredForNext :
          /\ Ledger[s.election_id].asset.data.power = 0
          /\ Cardinality(s.validators) < Cardinality(EffectiveAt(height))

\* ============================================================ status query

\* The height of the latest validator-set change and of the block that
\* contains election e.
LatestChangeHeight ==
    (CHOOSE s \in validators : \A r \in validators : r.height <= s.height)
        .height

ElectionHeight(e) ==
    (CHOOSE b \in blocks : e \in Range(b.transactions)).height

\* C21: the status query returns CONCLUDED if and only if a validator-set
\* snapshot carries the election's id; otherwise ONGOING if the height of
\* the latest validator-set change is strictly less than the height of the
\* block containing the election, and INCONCLUSIVE if it is greater than or
\* equal to it; exactly one of the three is returned.
C21_StatusOfElection ==
    [][shown' # shown =>
          LET e == shown'[1].election_id
              status == shown'[1].status
          IN  /\ status \in {"concluded", "ongoing", "inconclusive"}
              /\ status = "concluded"
                    <=> \E s \in validators : s.election_id = e
              /\ status = "ongoing"
                    <=> /\ \A s \in validators : s.election_id # e
                        /\ LatestChangeHeight < ElectionHeight(e)
              /\ status = "inconclusive"
                    <=> /\ \A s \in validators : s.election_id # e
                        /\ LatestChangeHeight >= ElectionHeight(e)]_vars

\* C21 witness: the status of an election was asked for that is in the
\* block at the height of the latest validator-set change, which another
\* election made.
C21_Witness ==
    /\ shown # <<>>
    /\ shown[1].status = "inconclusive"
    /\ shown[1].election_id \in transactions
    /\ LatestChangeHeight = ElectionHeight(shown[1].election_id)

\* ================================================================= routing

\* What worker w processed in the round that has just ended: its log, or
\* the log it had when it processed the RESET of the round.
RoundLog(w) ==
    IF RESET \in Range(routing_queues[w]) THEN worker_log[w] ELSE prev_log[w]

\* C22: each transaction passed to validate is put, tagged with its
\* submission index, on exactly one routing queue, the one with index
\* int(tx.id, 16) mod W; with W = 2 and the ids 0, 1, 2, 3 each worker
\* processes exactly two transactions.
C22_RoutedByIdModWorkers ==
    [][/\ Len(submitted') = Len(submitted) + 1 =>
              LET m == submitted'[Len(submitted')]
                  index == Int16(Tx[m.transaction].id) % NumberOfWorkers
              IN  /\ m.index = Len(submitted)
                  /\ routing_queues'[index] = Append(routing_queues[index], m)
                  /\ \A w \in Workers \ {index} :
                        routing_queues'[w] = routing_queues[w]
       /\ (pc # "ended" /\ pc' = "ended"
              /\ Len(last_round'.submitted) = Len(RoutedTransactions)) =>
              \A w \in Workers : Len(RoundLog(w)') = 2]_vars

\* C22 witness: the second round of the four transactions has ended, each
\* worker having processed two of them.
C22_Witness ==
    /\ pc = "ended"
    /\ begun = 2
    /\ Len(last_round.submitted) = 4
    /\ \A w \in Workers :
          /\ Len(RoundLog(w)) = 2
          /\ \A k \in 1 .. 2 :
                Int16(Tx[RoundLog(w)[k].transaction].id) % 2 = w

\* The worker the id of transaction t is routed to.
WorkerOf(t) == Int16(Tx[t].id) % NumberOfWorkers

\* In the round that has just ended the i-th submission is a CREATE that
\* is not in committed storage and the j-th a TRANSFER that spends it and
\* is routed to another worker.
SplitPair(i, j) ==
    LET c == last_round.submitted[i].transaction
        t == last_round.submitted[j].transaction
    IN  /\ Tx[c].operation = "CREATE"
        /\ Tx[t].operation = "TRANSFER"
        /\ \E o \in 0 .. (Tx[c].outputs - 1) : Spends(t, c, o)
        /\ c \notin transactions
        /\ WorkerOf(c) # WorkerOf(t)

\* C23: when a TRANSFER and the CREATE it spends are submitted in the same
\* round, the CREATE is not in committed storage and the two are routed to
\* different workers, the TRANSFER is rejected (its slot is falsy) while
\* the CREATE (its first submission) is accepted.
C23_TransferOnOtherWorkerRejected ==
    pc = "ended" =>
        \A i, j \in 1 .. Len(last_round.submitted) :
            SplitPair(i, j) =>
                /\ ~Truthy(result_buffer[j])
                /\ (\A k \in 1 .. (i - 1) :
                        last_round.submitted[k].transaction
                            # last_round.submitted[i].transaction)
                       => result_buffer[i]
                              = last_round.submitted[i].transaction

\* C23 witness: a round ended in which a CREATE was accepted and, submitted
\* after it, the TRANSFER that spends it was rejected on the other worker.
C23_Witness ==
    /\ pc = "ended"
    /\ \E i, j \in 1 .. Len(last_round.submitted) :
          /\ i < j
          /\ SplitPair(i, j)
          /\ Truthy(result_buffer[i])
          /\ Tx[last_round.submitted[j].transaction].wellformed
          /\ result_buffer[j] = "False"

\* ================================================================ the worker

\* Worker w is about to process a transaction that fails single-transaction
\* validation: is_valid_transaction gives False for it, or would once the
\* transaction reached it.
FailsNext(w) ==
    /\ running[w]
    /\ routing_queues[w] # <<>>
    /\ Head(routing_queues[w]).kind = "tx"
    /\ LET t == Head(routing_queues[w]).transaction
       IN  is_valid_transaction(t, validated_transactions[w][asset_id(t)])
               = "False"

\* C24: a transaction that fails single-transaction validation, whatever
\* the error kind, produces the pair (index, False) for its own index and
\* nothing else: the worker does not terminate, keeps its context and goes
\* on with the later messages of its queue.
C24_FailureIsAnsweredFalse ==
    [][\A w \in Workers :
          (FailsNext(w) /\ routing_queues'[w] = Tail(routing_queues[w])) =>
              /\ results_queue' =
                     Append(results_queue,
                            [index |-> Head(routing_queues[w]).index,
                             transaction |-> "False"])
              /\ running'[w]
              /\ validated_transactions'[w] = validated_transactions[w]]_vars

\* ==================================================== suppressed elections

\* The transactions of the committed block of height h, and those committed
\* before it.
BlockAt(h) == (CHOOSE b \in blocks : b.height = h).transactions

CommittedBefore(h) ==
    UNION {Range(b.transactions) : b \in {c \in blocks : c.height < h}}

\* The threshold test of the conclusion rule for election e in block h,
\* taken up to its k-th transaction: the topology of e is the validator set
\* effective at h and the votes reach 2/3 of its power.
ReachedIn(e, h, k) ==
    /\ e \in CommittedBefore(h)
    /\ is_same_topology(get_validators(<<h>>), Ledger[e].outputs)
    /\ 3 * (VotesIn(VoteOutputs(e, CommittedBefore(h)))
              + VotesIn(VoteOutputs(e, Range(SubSeq(BlockAt(h), 1, k)))))
           >= 2 * PowerOf(EffectiveAt(h))

\* The conclusion rule for election e at the k-th transaction of block h.
SatisfiedIn(e, h, k) ==
    /\ ReachedIn(e, h, k)
    /\ 3 * VotesIn(VoteOutputs(e, CommittedBefore(h)))
           < 2 * PowerOf(EffectiveAt(h))

\* The votes of block h, and the elections whose conclusion was suppressed
\* in it: a vote made the election satisfy the rule after another vote of
\* the block had concluded an election.
VotesOfBlock(h) ==
    {k \in 1 .. Len(BlockAt(h)) :
        Ledger[BlockAt(h)[k]].operation = "VALIDATOR_ELECTION_VOTE"}

SuppressedIn(h) ==
    {Ledger[BlockAt(h)[k]].asset.id : k \in
        {k \in VotesOfBlock(h) :
            /\ SatisfiedIn(Ledger[BlockAt(h)[k]].asset.id, h, k)
            /\ \E j \in VotesOfBlock(h) :
                  /\ j < k
                  /\ SatisfiedIn(Ledger[BlockAt(h)[j]].asset.id, h, j)}}

\* The elections suppressed in a committed block before the current one.
SuppressedBefore ==
    UNION {SuppressedIn(b.height) :
              b \in {c \in blocks : 1 < c.height /\ c.height < height}}

\* The current block has ended and its k-th transaction is a vote for the
\* suppressed election e that was evaluated with the topology of e equal
\* to the new validator set and the votes of e at 2/3 of its power.
Reevaluated(e, k) ==
    /\ pc = "ended"
    /\ e \in SuppressedBefore
    /\ k \in Evaluated
    /\ ElectionAt(k) = e
    /\ is_same_topology(get_validators(<<height>>), Ledger[e].outputs)
    /\ 3 * (CommittedVotes(e) + BlockVotes(e, k))
           >= 2 * PowerOf(EffectiveAt(height))

Initiable ==
    /\ call[1].sk_exists
    /\ ~call[1].stored
    /\ \E v \in CurrentValidators : v.public_key.value.key = call[1].key
    /\ 3 * call[1].power < TotalPower

\* C26: run_upsert_validator_new submits nothing when the election cannot
\* be initiated: if validation raises a ValidationError or the key file is
\* missing it returns False and write_transaction is never called; it
\* returns the election id only when the write response is (202, ''), and
\* False for any other response.
C26_NothingSubmittedUnlessValid ==
    pc = "done" =>
        /\ ~Initiable =>
               returned[1] = [value |-> "False", written |-> FALSE]
        /\ Initiable => returned[1].written
        /\ returned[1].value \in {"False", "e"}
        /\ returned[1].value = "e"
               <=> /\ Initiable
                   /\ call[1].resp.code = 202
                   /\ call[1].resp.text = ""

\* C26 witness: against the single validator of power 10 the command
\* proposed power 10 with the validator's existing key file, and returned
\* False without a write.
C26_Witness ==
    /\ pc = "done"
    /\ validators = GenesisValidators
    /\ call[1].power = 10
    /\ call[1].key = "P"
    /\ call[1].sk_exists
    /\ ~call[1].stored
    /\ returned[1] = [value |-> "False", written |-> FALSE]

\* ==================================================================== start

\* Recovery has run to completion: when the pre-commit state was ahead of
\* the committed chain none of its transactions is stored any more, and
\* otherwise storage is as it was.
RecoveryDone ==
    /\ Ahead0 => \A id \in Range(PreCommit0[1].transactions) :
                     get_transaction(id) = {}
    /\ ~Ahead0 => storage = storage0

\* C27: on start, run_recover runs to completion before the database is
\* initialised and before the ABI handler process is started, and the
\* handler is started also when the initialisation of the database reports
\* DatabaseAlreadyExists.
C27_RecoverBeforeInitAndStart ==
    /\ [](/\ pc = "down" => returned = <<>>
          /\ returned # <<>> => RecoveryDone
          /\ pc = "started" => RecoveryDone /\ returned # <<>>)
    /\ (returned # <<>> /\ returned[1].raised = "DatabaseAlreadyExists")
           ~> (pc = "started")

\* C27 witness: the handler was started on a database that existed and
\* from which recovery had deleted a transaction.
C27_Witness ==
    /\ pc = "started"
    /\ returned[1].raised = "DatabaseAlreadyExists"
    /\ Ahead0
    /\ transactions # Transactions0

\* ===================================================================== stop

\* C28: a worker leaves its loop only by taking the EXIT sentinel from its
\* queue, so every message queued before EXIT was processed first and each
\* transaction among them was answered with a result, and once it has left
\* the loop it takes no message from its queue any more.
C28_LeavesLoopAtExitOnly ==
    [][\A w \in Workers :
          /\ (running[w] /\ ~running'[w]) =>
                 /\ Head(routing_queues[w]) = EXIT
                 /\ results_queue' = results_queue
          /\ (running'[w] /\ routing_queues[w] # <<>>
                  /\ routing_queues'[w] = Tail(routing_queues[w])
                  /\ Head(routing_queues[w]).kind = "tx") =>
                 /\ Len(results_queue') = Len(results_queue) + 1
          /\ ~running[w] =>
                 /\ ~running'[w]
                 /\ Len(routing_queues'[w]) >= Len(routing_queues[w])]_vars

\* =================================================================== rounds

\* The transaction messages of a queue, and those a worker's log says it
\* has processed since its last RESET.
TxOnly(queue) == SelectSeq(queue, LAMBDA m : m.kind = "tx")

Logged(w) ==
    [k \in 1 .. Len(worker_log[w]) |->
        [kind |-> "tx", index |-> worker_log[w][k].index,
         transaction |-> worker_log[w][k].transaction]]

\* The part of a queue behind its last RESET; the whole queue when it
\* holds none.
AfterLastReset(queue) ==
    LET R == {k \in DOMAIN queue : queue[k] = RESET}
    IN  IF R = {} THEN queue
        ELSE SubSeq(queue, (CHOOSE k \in R : \A j \in R : j <= k) + 1,
                    Len(queue))

\* The messages of the round under way that were routed to worker w, in
\* the order validate() put them.
RoundOf(w) ==
    SelectSeq(submitted, LAMBDA m : worker_index(m.transaction) = w)

\* C29: on every worker's queue the RESET that ends a round lies behind
\* all transactions of that round and before all of the next one, so the
\* worker processes them in that order: while the RESET of the last round
\* is still queued, exactly the transactions of the round under way lie
\* behind it, and once it is processed the worker has validated, and holds
\* in its context, transactions of the round under way only.
C29_ResetSeparatesRounds ==
    \A w \in Workers :
        /\ RESET \in Range(routing_queues[w]) =>
               TxOnly(AfterLastReset(routing_queues[w])) = RoundOf(w)
        /\ RESET \notin Range(routing_queues[w]) =>
               Logged(w) \o TxOnly(routing_queues[w]) = RoundOf(w)
        /\ \A a \in Ids :
              \A k \in 1 .. Len(validated_transactions[w][a]) :
                  \E j \in 1 .. Len(worker_log[w]) :
                      /\ worker_log[w][j].result =
                             validated_transactions[w][a][k]
                      /\ asset_id(worker_log[w][j].transaction) = a

\* C29 witness: a worker that accepted a transaction in the last round has
\* processed the RESET of that round and then a transaction of the round
\* under way, and its context holds nothing of the last round.
C29_Witness ==
    \E w \in Workers :
        /\ last_round.submitted # <<>>
        /\ RESET \notin Range(routing_queues[w])
        /\ worker_log[w] # <<>>
        /\ \E k \in 1 .. Len(prev_log[w]) :
              /\ Truthy(prev_log[w][k].result)
              /\ \A a \in Ids :
                    prev_log[w][k].result
                        \notin Range(validated_transactions[w][a])

\* ========================================================= pre-commit state

\* C30: in every state of the block lifecycle, crashes and restarts
\* included, the height of the pre-commit state is at most the height of
\* the latest committed block plus one.
C30_PreCommitAtMostOneAhead ==
    pre_commit # <<>> => pre_commit[1].height <= LatestHeight + 1

\* C30 witness: after a crash between the storing of a block's transactions
\* and the storing of the block, recovery has deleted those transactions,
\* the pre-commit state being one block ahead.
C30_Witness ==
    /\ pc = "recovered"
    /\ pre_commit # <<>>
    /\ blocks # {}
    /\ pre_commit[1].height = LatestHeight + 1
    /\ transactions # Transactions0

\* ========================================================== inconclusiveness

\* The election whose snapshot the step stores.
ConcludesNow(e) ==
    \E s \in validators' \ validators : s.election_id = e

\* C31: an election the status query reports INCONCLUSIVE is one whose
\* output topology does not equal the current validator set, and an election
\* the status query reports INCONCLUSIVE is not returned by has_concluded in
\* a later block, that is, no later end_block concludes it.
C31_InconclusiveNeverConcludes ==
    [][/\ (shown' # shown /\ shown'[1].status = "inconclusive") =>
              ~is_same_topology(get_validators(<<>>),
                                Ledger[shown'[1].election_id].outputs)
       /\ \A e \in LedgerIds :
              (shown # <<>> /\ shown[1].election_id = e
                  /\ shown[1].status = "inconclusive") => ~ConcludesNow(e)]_vars

\* ================================================================ isolation

\* The step takes a message from worker w's queue.
Takes(w) ==
    /\ routing_queues[w] # <<>>
    /\ routing_queues'[w] = Tail(routing_queues[w])

\* C32: a worker that processes a message changes no other worker's context
\* and nothing in committed storage.
C32_WorkersIsolated ==
    [][\A w \in Workers :
          Takes(w) =>
              /\ \A j \in Workers \ {w} :
                    validated_transactions'[j] = validated_transactions[j]
              /\ storage' = storage]_vars

\* C32 witness: two workers hold different contexts, neither of them empty,
\* while a block is committed.
C32_Witness ==
    /\ transactions # {}
    /\ \E w, j \in Workers :
          /\ validated_transactions[w] # EmptyContext
          /\ validated_transactions[j] # EmptyContext
          /\ validated_transactions[w] # validated_transactions[j]

\* ============================================================== the context

\* The asset id of a transaction by its operation: the id of the asset it
\* transfers, or its own id when it creates the asset.
OwnAssetId(t) ==
    IF Tx[t].operation = "TRANSFER" THEN Tx[t].asset[1] ELSE Tx[t].id

\* The step in which worker w answers the transaction at the head of its
\* queue with `result`.
Answers(w, result) ==
    /\ Takes(w)
    /\ Head(routing_queues[w]).kind = "tx"
    /\ results_queue' =
           Append(results_queue,
                  [index |-> Head(routing_queues[w]).index,
                   transaction |-> result])

\* C33: a worker's context holds only transactions the worker accepted
\* since its last RESET; a transaction it accepts is appended to the list of
\* its own asset id and to no other list, and a transaction it rejects
\* leaves its whole context unchanged.
C33_ContextHoldsAcceptedOnly ==
    /\ [](\A w \in Workers : \A a \in Ids :
            \A k \in 1 .. Len(validated_transactions[w][a]) :
                \E j \in 1 .. Len(worker_log[w]) :
                    /\ worker_log[w][j].transaction =
                           validated_transactions[w][a][k]
                    /\ worker_log[w][j].result =
                           validated_transactions[w][a][k])
    /\ [][\A w \in Workers :
             LET t == Head(routing_queues[w]).transaction
             IN  /\ Answers(w, t) =>
                        validated_transactions'[w] =
                            [validated_transactions[w]
                                EXCEPT ![OwnAssetId(t)] = Append(@, t)]
                 /\ Answers(w, "False") =>
                        validated_transactions'[w] =
                            validated_transactions[w]]_vars

\* C33 witness: a worker that has accepted a CREATE and a TRANSFER of its
\* asset, both in the list of the CREATE's id, has rejected a third
\* transaction.
C33_Witness ==
    \E w \in Workers : \E a \in Ids :
        /\ Len(validated_transactions[w][a]) = 2
        /\ Tx[validated_transactions[w][a][1]].operation = "CREATE"
        /\ Tx[validated_transactions[w][a][2]].operation = "TRANSFER"
        /\ Len(worker_log[w]) = 3
        /\ worker_log[w][3].result = "False"

\* ================================================================== replays

\* The step is an end_block that concludes election e: it stores a snapshot
\* that carries e's id and returns e's validator update.
EndBlockConcludes(e) ==
    /\ pc = "open"
    /\ pc' = "ended"
    /\ \E s \in returned'[1].stored : s.election_id = e
    /\ response'.validator_updates = <<EncodedUpdate(e)>>

\* C34 as stated: once a snapshot that carries election id e is written, no
\* later end_block writes another snapshot for e or returns another
\* validator update for e, whatever the blocks, crashes and replays.
C34_ConcludesOnce ==
    [][\A e \in LedgerIds :
          (\E s \in validators : s.election_id = e) =>
              ~EndBlockConcludes(e)]_vars

\* C34 amended: once a snapshot that carries election id e is written, the
\* only later end_block that concludes e is that of a replay of the block e
\* concluded in, which writes the same snapshot again and nothing else.
C34_ConcludesAgainInReplayOnly ==
    [][\A e \in LedgerIds :
          ((\E s \in validators : s.election_id = e)
              /\ EndBlockConcludes(e)) =>
              /\ Replaying
              /\ \A s \in validators : s.election_id = e => s.height = height + 1
              /\ validators' = validators]_vars

\* C34 witness: an election that concluded in a block that a crash kept from
\* being committed has concluded again in the replay of the block, and the
\* replayed block is committed.
C34_Witness ==
    /\ pc = "idle"
    /\ begun = 2
    /\ LatestHeight = 2
    /\ returned # <<>>
    /\ returned[1].stored # {}
    /\ returned[1].stored \subseteq validators
    /\ Cardinality(validators) = 2

\* ============================================================ failed result

\* C35: a result() that fails on timeout leaves the submission counter, the
\* routing queues (no RESET is put) and the workers' contexts as they were;
\* the pairs it had taken from the results queue are not put back, and no
\* transaction of them joins the block or the pre-commit state.
C35_TimeoutLeavesCoordinator ==
    [][(pc = "harvest" /\ pc' = "failed") =>
          /\ transaction_index' = transaction_index
          /\ routing_queues' = routing_queues
          /\ validated_transactions' = validated_transactions
          /\ results_queue' = <<>>
          /\ block_transactions' = block_transactions
          /\ block_txn_ids' = block_txn_ids
          /\ storage' = storage]_vars

\* C35 witness: result() has failed after it had taken the pair of an
\* accepted transaction, which is in a worker's context and not in the
\* block.
C35_Witness ==
    /\ pc = "failed"
    /\ transaction_index > 1
    /\ \E k \in 1 .. Len(arrived) :
          /\ Truthy(result_buffer[arrived[k] + 1])
          /\ \E w \in Workers : \E a \in Ids :
                result_buffer[arrived[k] + 1]
                    \in Range(validated_transactions[w][a])
    /\ block_transactions = <<>>
    /\ results_queue = <<>>

\* ================================================================== forward

\* The elections the status query can be asked for: those in a committed
\* block.
Queryable ==
    {e \in LedgerIds :
        /\ Ledger[e].operation = "VALIDATOR_ELECTION"
        /\ bigchain_get_transaction(e) # <<>>
        /\ get_block_containing_tx(e) # <<>>}

\* C36: the status of an election only moves forward: an election whose
\* status is CONCLUDED has the status CONCLUDED in every later state, and an
\* election whose status is not ONGOING never has the status ONGOING again.
C36_StatusMovesForward ==
    [][\A e \in Queryable :
          /\ e \in Queryable'
          /\ get_status(e) = "concluded" => get_status(e)' = "concluded"
          /\ get_status(e) # "ongoing" => get_status(e)' # "ongoing"]_vars

\* C36 witness: the status query has answered INCONCLUSIVE for an election
\* that concluded afterwards.
C36_Witness ==
    /\ shown # <<>>
    /\ shown[1].status = "inconclusive"
    /\ get_status(shown[1].election_id) = "concluded"

\* ============================================================== idempotence

\* The stored transactions after one run of run_recover on the storage the
\* first run started from.
RecoveredOnce ==
    IF Ahead0
    THEN {t \in Transactions0 :
             Tx[t].id \notin Range(PreCommit0[1].transactions)}
    ELSE Transactions0

\* C37: after any number of runs of run_recover, interrupted or not, storage
\* is what one run makes of the storage the first run started from, and a
\* run after a run that was not interrupted changes nothing.
C37_RecoverIdempotent ==
    /\ [](pc = "recovered" =>
             storage = <<RecoveredOnce, Blocks0, PreCommit0, storage0[4]>>)
    /\ [][(pc = "down" /\ pc' = "recovered" /\ "completed" \in Range(call))
             => storage' = storage]_vars

\* C37 witness: run_recover has run again, after a run that was interrupted
\* and a run that was not, on a storage from which it deletes transactions.
C37_Witness ==
    /\ pc = "recovered"
    /\ call = <<"interrupted", "completed">>
    /\ Ahead0
    /\ Cardinality(Transactions0 \ transactions) >= 2

\* ============================================================== no conclusion

\* C38: when no vote of the block makes its election satisfy the conclusion
\* rule, get_validator_update returns the empty list and stores no
\* snapshot; has_concluded is called for the votes of the block only.
C38_NoConclusionNoUpdate ==
    pc = "ended" =>
        /\ Evaluated \subseteq VotePositionsInBlock
        /\ (\A k \in VotePositionsInBlock :
               ~ConclusionRule(ElectionAt(k), k, height)) =>
               /\ returned[1].validator_updates = <<>>
               /\ returned[1].stored = {}

\* ========================================================= order of checks

\* The election's id is in committed storage or among the transactions of
\* the current block.
AlreadyExists ==
    \/ call[1].stored
    \/ \E k \in 1 .. Len(call[1].current_transactions) :
           call[1].current_transactions[k].id = Submitted.id

\* The first check, in the order of validate(), that the submitted
\* election fails; "None" when it passes them all.
FirstFailingCheck ==
    IF AlreadyExists THEN "DuplicateTransaction"
    ELSE IF ~Submitted.signed THEN "InvalidSignature"
    ELSE IF ~SingleProposer THEN "MultipleInputsError"
    ELSE IF ~PowerAllowed THEN "InvalidPowerChange"
    ELSE IF ~ProposerIsValidator THEN "InvalidProposer"
    ELSE IF ~ExactTopology THEN "UnequalValidatorSet"
    ELSE "None"

\* C39: validate() raises the exception of the first failing check in the
\* order DuplicateTransaction, InvalidSignature, MultipleInputsError,
\* InvalidPowerChange, InvalidProposer, UnequalValidatorSet; it returns the
\* election itself only when every check passes, and the storage is the
\* same after the call as before it.
C39_FirstFailingCheckReported ==
    pc = "validated" =>
        /\ Verdict.raised = FirstFailingCheck
        /\ Accepted0 => Verdict.value = <<Submitted>>
        /\ storage = storage0

====
